---- MODULE Spec2Model ----
(***************************************************************************)
(* AlgoTradeCompanion: the backtesting simulation (BacktestingService,     *)
(* POST /api/backtests), the storage layer (MemStorage / DatabaseStorage), *)
(* the live risk metrics and the daily loss limit (RiskManagementService), *)
(* trade submission (POST /api/trades, TradingService.executeTrade) and    *)
(* the iceberg, time-based and trailing stop orders of                     *)
(* AdvancedOrdersService.                                                  *)
(*                                                                         *)
(* Numbers.  Currency amounts and portfolio values are integers.  Every    *)
(* quotient the code forms is an extended rational <<n, d>> in lowest      *)
(* terms with d >= 0: d > 0 is the finite value n/d, <<1,0>> is +Infinity, *)
(* <<-1,0>> is -Infinity and <<0,0>> is NaN, with the IEEE-754 rules of    *)
(* JavaScript for division by zero and NaN propagation.  Finite arithmetic *)
(* is exact (no rounding), except where a comparison rests on a rounding   *)
(* residue: whether the standard deviation of a series of equal returns is *)
(* above 0 is decided in IEEE-754 doubles (StdPositive); the magnitude of   *)
(* a quotient by such a residue is then recorded as unbounded.  A value    *)
(* the code obtains through Math.sqrt is kept as its sign and its square.  *)
(*                                                                         *)
(* Time.  A Date is an integer number of ticks; TicksPerDay ticks are the  *)
(* 24*60*60*1000 ms of one day.                                            *)
(***************************************************************************)
EXTENDS Integers, Sequences, FiniteSets, TLC

VARIABLES
    strategies,     \* MemStorage.strategies: id -> Strategy
    backtests,      \* MemStorage.backtests: id -> Backtest
    currentId,      \* MemStorage.currentId
    pc,             \* per request: position in POST /api/backtests
    req,            \* per request: the parsed body
    strat,          \* per request: the strategy last looked up
    acc,            \* per request: the locals of simulateBacktest
    result,         \* per request: the BacktestResult simulateBacktest returned
    response,       \* per request: the HTTP response
    simulated,      \* per request: simulateBacktest was invoked (history)
    created,        \* per request: ids of the backtests it persisted (history)
    draws,          \* per request: the random draws of its own loop (history)
    portfolioHistory, \* storage: the portfolio_history rows, in insertion order
    storageKind,    \* which IStorage implementation is exported as `storage`
    now,            \* the wall clock (Date.now()), in days
    rpc,            \* position of the running getPortfolioRiskMetrics call
    rsnap,          \* the history that call fetched itself (line 159)
    rpart,          \* the fields computed before calculateDrawdown is awaited
    rlog,           \* completed getPortfolioRiskMetrics calls (history)
    fetched,        \* last direct getPortfolioHistory / calculateDrawdown call
    series,         \* a number series handed to a metric function directly
    probe,          \* the metric function last applied to series, and its result
    tradesTable,    \* MemStorage.trades: the Trade rows, in insertion order
    strategyStats,  \* MemStorage.strategies: id -> totalPnL, totalTrades
    tradeResponse,  \* the response of the last POST /api/trades
    lossCheck,      \* the result of the last GET /api/risk/daily-loss
    execCalls,      \* the executeTrade calls in progress: position and locals
    icebergOrders,  \* AdvancedOrdersService.icebergOrders: id -> IcebergOrder
    orderIdCounter, \* AdvancedOrdersService.orderIdCounter
    processCalls,   \* the processIcebergOrder calls: position and locals
    placedOrders,   \* the child orders the broker accepted, in order
    orderClock,     \* the wall clock of the order monitors, in minutes
    timeBasedOrders, \* AdvancedOrdersService.timeBasedOrders: id -> TimeBasedOrder
    timeTicks,      \* the processTimeBasedOrders runs: position and locals
    executions,     \* the time-based orders the broker accepted (history)
    trailingStopOrders, \* AdvancedOrdersService.trailingStopOrders: id -> order
    stopTicks,      \* the updateTrailingStops runs: position and locals
    sellOrders,     \* the market SELL orders sent for trailing stops (history)
    seenPrices      \* per trailing stop: the prices processed while ACTIVE (history)

vars == <<strategies, backtests, currentId, pc, req, strat, acc, result,
          response, simulated, created, draws, portfolioHistory, storageKind, now,
          rpc, rsnap, rpart, rlog, fetched, series, probe,
          tradesTable, strategyStats, tradeResponse, lossCheck, execCalls,
          icebergOrders, orderIdCounter, processCalls, placedOrders,
          orderClock, timeBasedOrders, timeTicks, executions,
          trailingStopOrders, stopTicks, sellOrders, seenPrices>>

btVars == <<strategies, backtests, currentId, pc, req, strat, acc, result,
            response, simulated, created, draws>>

riskVars == <<portfolioHistory, storageKind, now, rpc, rsnap, rpart, rlog,
              fetched>>

pureVars == <<series, probe>>

tradeVars == <<tradesTable, strategyStats, tradeResponse, lossCheck, execCalls>>

timeVars == <<orderClock, timeBasedOrders, timeTicks, executions>>

stopVars == <<trailingStopOrders, stopTicks, sellOrders, seenPrices>>

orderVars == <<icebergOrders, orderIdCounter, processCalls, placedOrders,
               timeVars, stopVars>>

----------------------------------------------------------------------------
(* Extended rationals: JavaScript number arithmetic                         *)

Abs(x) == IF x < 0 THEN -x ELSE x

Sign(x) == IF x < 0 THEN -1 ELSE IF x > 0 THEN 1 ELSE 0

RECURSIVE GCD(_, _)
GCD(a, b) == IF b = 0 THEN a ELSE GCD(b, a % b)

Norm(n, d) ==
    IF d = 0 THEN <<Sign(n), 0>>
    ELSE LET g == GCD(Abs(n), Abs(d))
             s == IF d < 0 THEN -1 ELSE 1
         IN  <<s * (n \div g), s * (d \div g)>>

R(x) == <<x, 1>>

NaN == <<0, 0>>

Zero == <<0, 1>>

IsNaN(a) == a[1] = 0 /\ a[2] = 0

IsFinite(a) == a[2] > 0

\* a + b (finite operands over their least common denominator)
Add(a, b) ==
    IF a[2] = 0 /\ b[2] = 0
    THEN (IF a[1] = b[1] THEN a ELSE NaN)
    ELSE IF a[2] = 0 \/ b[2] = 0
    THEN Norm(a[1] * b[2] + b[1] * a[2], 0)
    ELSE LET g == GCD(a[2], b[2])
         IN  Norm(a[1] * (b[2] \div g) + b[1] * (a[2] \div g), a[2] * (b[2] \div g))

Neg(a) == <<-a[1], a[2]>>

\* a - b
Sub(a, b) == Add(a, Neg(b))

\* a * b (finite operands cancelled crosswise before multiplying)
Mul(a, b) ==
    IF a[2] = 0 \/ b[2] = 0 THEN Norm(Sign(a[1]) * Sign(b[1]), 0)
    ELSE LET g == GCD(Abs(a[1]), b[2])
             h == GCD(Abs(b[1]), a[2])
         IN  Norm((a[1] \div g) * (b[1] \div h), (a[2] \div h) * (b[2] \div g))

\* 1 / b
Recip(b) ==
    IF b[1] < 0 THEN <<-b[2], -b[1]>>
    ELSE IF b[1] = 0 THEN <<Sign(b[2]), 0>>
    ELSE <<b[2], b[1]>>

\* a / b
Div(a, b) == Mul(a, Recip(b))

\* a < b (false when either is NaN)
Less(a, b) ==
    /\ ~IsNaN(a)
    /\ ~IsNaN(b)
    /\ IF a[2] = 0 /\ b[2] = 0 THEN a[1] < b[1]
       ELSE IF a[2] = 0 THEN a[1] < 0
       ELSE IF b[2] = 0 THEN b[1] > 0
       ELSE a[1] * b[2] < b[1] * a[2]

\* a <= b (false when either is NaN)
Leq(a, b) == ~IsNaN(a) /\ ~IsNaN(b) /\ ~Less(b, a)

\* Math.max(a, b)
MathMax(a, b) == IF IsNaN(a) \/ IsNaN(b) THEN NaN ELSE IF Less(a, b) THEN b ELSE a

\* Math.abs(a)
MathAbs(a) == <<Abs(a[1]), a[2]>>

RECURSIVE SumR(_)
SumR(s) == IF s = <<>> THEN Zero ELSE Add(SumR(SubSeq(s, 1, Len(s) - 1)), s[Len(s)])

\* s.reduce((sum, r) => sum + r, 0) / s.length
Mean(s) == Div(SumR(s), R(Len(s)))

\* s.reduce((sum, r) => sum + Math.pow(r - mean, 2), 0) / s.length
Variance(s) ==
    LET m == Mean(s)
        sq == [i \in 1..Len(s) |-> Mul(Sub(s[i], m), Sub(s[i], m))]
    IN  Div(SumR(sq), R(Len(s)))

\* A number known through Math.sqrt: its sign s and its square q.
Surd(s, q) == [s |-> IF IsNaN(q) THEN 0 ELSE s, q |-> q]

SurdZero == Surd(0, Zero)

----------------------------------------------------------------------------
(* IEEE-754 doubles, where rounding decides a comparison.  A positive double *)
(* is [m, e] with 2^52 <= m < 2^53, standing for m * 2^e; m is a natural     *)
(* number held as its digits in base Base, least significant first.          *)

Base == 2^15

RECURSIVE BigTrim(_)
BigTrim(a) ==
    IF a # <<>> /\ a[Len(a)] = 0 THEN BigTrim(SubSeq(a, 1, Len(a) - 1)) ELSE a

RECURSIVE BigOf(_)
BigOf(n) == IF n = 0 THEN <<>> ELSE <<n % Base>> \o BigOf(n \div Base)

\* a * k + carry, for k and carry below Base
RECURSIVE BigMulSmall(_, _, _)
BigMulSmall(a, k, carry) ==
    IF a = <<>> THEN BigOf(carry)
    ELSE LET cur == Head(a) * k + carry
         IN  <<cur % Base>> \o BigMulSmall(Tail(a), k, cur \div Base)

\* a + b + carry
RECURSIVE BigAdd(_, _, _)
BigAdd(a, b, carry) ==
    IF a = <<>> /\ b = <<>> THEN BigOf(carry)
    ELSE LET x == IF a = <<>> THEN 0 ELSE Head(a)
             y == IF b = <<>> THEN 0 ELSE Head(b)
             cur == x + y + carry
         IN  <<cur % Base>>
             \o BigAdd(IF a = <<>> THEN <<>> ELSE Tail(a),
                       IF b = <<>> THEN <<>> ELSE Tail(b), cur \div Base)

\* Quotient q and remainder r of (r0 * Base^Len(a) + a) by k, for r0 < k < Base
RECURSIVE BigDivRem(_, _, _)
BigDivRem(a, k, r0) ==
    IF a = <<>> THEN [q |-> <<>>, r |-> r0]
    ELSE LET cur == r0 * Base + a[Len(a)]
             rest == BigDivRem(SubSeq(a, 1, Len(a) - 1), k, cur % k)
         IN  [q |-> Append(rest.q, cur \div k), r |-> rest.r]

\* a >= 2^53
AtLeastTwo53(a) == Len(a) > 4 \/ (Len(a) = 4 /\ a[4] >= 2^8)

\* The number of bits of a > 0
BitLen(a) ==
    15 * (Len(a) - 1)
    + (CHOOSE b \in 1..15 : 2^(b - 1) <= a[Len(a)] /\ a[Len(a)] < 2^b)

\* q without its k lowest bits, and whether any bit dropped (or sticky) was set
RECURSIVE ShiftRight(_, _, _)
ShiftRight(q, k, sticky) ==
    IF k = 0 THEN [q |-> q, sticky |-> sticky]
    ELSE LET j == IF k < 14 THEN k ELSE 14
             d == BigDivRem(q, 2^j, 0)
         IN  ShiftRight(BigTrim(d.q), k - j, sticky \/ d.r # 0)

RECURSIVE ZeroDigits(_)
ZeroDigits(k) == IF k <= 0 THEN <<>> ELSE <<0>> \o ZeroDigits(k - 1)

\* The double nearest to n / d * 2^s, ties to even (n > 0 big, 0 < d < Base):
\* the quotient is taken with spare bits, cut to 53 bits and rounded on the
\* first bit cut (rbit) and on whether anything else was cut (sticky).
RoundToDouble(n, d, s) ==
    LET k == IF Len(n) < 6 THEN 6 - Len(n) ELSE 0
        dr == BigDivRem(ZeroDigits(k) \o n, d, 0)
        quot == BigTrim(dr.q)
        cut == BitLen(quot) - 53
        sh == ShiftRight(quot, cut - 1, dr.r # 0)
        last == BigDivRem(sh.q, 2, 0)
        kept == BigTrim(last.q)
        up == last.r = 1 /\ (sh.sticky \/ kept[1] % 2 = 1)
        m == IF up THEN BigAdd(kept, <<>>, 1) ELSE kept
        e == s - 15 * k + cut
    IN  IF AtLeastTwo53(m)
        THEN [m |-> BigTrim(BigDivRem(m, 2, 0).q), e |-> e + 1]
        ELSE [m |-> m, e |-> e]

\* The double a division p / q of two positive integers yields
DoubleOf(p, q) == RoundToDouble(BigOf(p), q, 0)

\* x + y for positive doubles, x the larger
DoubleAdd(x, y) ==
    RoundToDouble(BigAdd(BigMulSmall(x.m, 2^(x.e - y.e), 0), y.m, 0), 1, y.e)

\* reduce((sum, r) => sum + r, 0) over n copies of r
RECURSIVE DoubleSumOfCopies(_, _)
DoubleSumOfCopies(r, n) ==
    IF n = 1 THEN r
    ELSE CHOOSE next \in {DoubleAdd(sum, r) : sum \in {DoubleSumOfCopies(r, n - 1)}} :
            TRUE

\* reduce((sum, r) => sum + r, 0) / length over n copies of r
DoubleMeanOfCopies(r, n) ==
    CHOOSE mean \in {RoundToDouble(sum.m, n, sum.e) :
                        sum \in {DoubleSumOfCopies(r, n)}} : TRUE

\* Math.sqrt(variance) > 0 as the doubles decide it.  The deviations
\* r - mean are all 0 exactly when every return equals the rounded mean; for a
\* series of equal non-zero returns that is a matter of rounding, and
\* otherwise the exact variance decides.
StdPositive(returns) ==
    IF /\ Len(returns) > 0
       /\ \A i \in 1..Len(returns) : returns[i] = returns[1]
       /\ IsFinite(returns[1])
       /\ returns[1][1] # 0
    THEN LET r == DoubleOf(Abs(returns[1][1]), returns[1][2])
         IN  DoubleMeanOfCopies(r, Len(returns)) # r
    ELSE Less(Zero, Variance(returns))

----------------------------------------------------------------------------
(* Bounds and sample sets                                                   *)

\* Dates of a request range over 0..MaxTick.
MaxTick == 4

\* Ticks in 24 hours.
TicksPerDay == 2

\* Math.random() yields k / RandomDen for k in RandomSamples.
RandomSamples == {0, 1, 2, 3}

RandomDen == Cardinality(RandomSamples)

StrategyIds == {1, 2, 3}

\* req.session.userId of the requests modelled
SessionUser == 1

Capitals == {0, 500, 1000}

Requests == {1, 2}

----------------------------------------------------------------------------
(* Shared schema and storage: strategies and backtests                      *)

\* backtestRequestSchema.parse(req.body): strategyId, startDate and endDate
\* of the declared types; initialCapital: z.number().min(1000).
BacktestRequestSchemaOk(body) == body.initialCapital >= 1000

NoStrategy == [found |-> FALSE, id |-> 0, userId |-> 0]

\* storage.getStrategy(id): the row, or undefined
GetStrategy(id) ==
    IF id \in DOMAIN strategies
    THEN [found |-> TRUE, id |-> id, userId |-> strategies[id].userId]
    ELSE NoStrategy

\* The id MemStorage.createBacktest gives the new row: this.currentId++
NextBacktestId == currentId

\* Faulty variant of BumpedId: the counter left where it was
BumpedIdStuck(id) == id

\* The counter after this.currentId++
BumpedId(id) == id + 1

----------------------------------------------------------------------------
(* BacktestingService.simulateBacktest                                      *)

Symbols == <<"AAPL", "GOOGL", "MSFT", "TSLA">>

\* TradingService.getBasePriceForSymbol
BasePrice(symbol) ==
    CASE symbol = "AAPL" -> 150
      [] symbol = "GOOGL" -> 100
      [] symbol = "MSFT" -> 300
      [] symbol = "TSLA" -> 200
      [] symbol = "AMZN" -> 120
      [] symbol = "NVDA" -> 400
      [] symbol = "META" -> 250
      [] OTHER -> 100

\* TradingService.generateMockPrice with Math.random() = k / RandomDen:
\* basePrice * (1 + (r - 0.5) * 2 * 0.02)
GenerateMockPrice(symbol, k) ==
    Norm(BasePrice(symbol) * (50 * RandomDen + 2 * k - RandomDen), 50 * RandomDen)

\* Faulty variant of RandomPnl: Math.random() * 1000 - 1000
RandomPnlShifted(k) == ((k - RandomDen) * 1000) \div RandomDen

\* (Math.random() - 0.5) * 1000 with Math.random() = k / RandomDen
RandomPnl(k) == ((2 * k - RandomDen) * 1000) \div (2 * RandomDen)

\* The five Math.random() draws of one synthesized trade (as sample indexes).
TradeDraws ==
    {[sym |-> a, side |-> a, qty |-> a, price |-> a, pnl |-> k] :
        a \in {0, 3}, k \in RandomSamples}

\* The BacktestTrade pushed at lines 795-809 for the draws d on currentDate.
MakeTrade(currentDate, d) ==
    LET symbol == Symbols[((d.sym * Len(Symbols)) \div RandomDen) + 1]
    IN  [date |-> currentDate,
         symbol |-> symbol,
         side |-> IF 2 * d.side > RandomDen THEN "BUY" ELSE "SELL",
         quantity |-> ((d.qty * 10) \div RandomDen) + 1,
         price |-> GenerateMockPrice(symbol, d.price),
         pnl |-> RandomPnl(d.pnl)]

\* Faulty variant of DaysDiff: the range taken exclusive of its last day
DaysDiffExclusive(request) ==
    ((request.endDate - request.startDate) \div TicksPerDay) - 1

\* Faulty variant of DaysDiff: Math.ceil in place of Math.floor
DaysDiffCeil(request) ==
    ((request.endDate - request.startDate) + TicksPerDay - 1) \div TicksPerDay

\* Math.floor((endDate.getTime() - startDate.getTime()) / (1000*60*60*24))
DaysDiff(request) == (request.endDate - request.startDate) \div TicksPerDay

\* Faulty variant of InitialAcc: the running peak started at 0, not at the capital
InitialAccZeroPeak(request) ==
    [i |-> 0,
     currentValue |-> request.initialCapital,
     maxValue |-> 0,
     maxDrawdown |-> Zero,
     trades |-> <<>>,
     dailyValues |-> <<>>]

\* The locals of simulateBacktest before the loop (lines 779-787).
InitialAcc(request) ==
    [i |-> 0,
     currentValue |-> request.initialCapital,
     maxValue |-> request.initialCapital,
     maxDrawdown |-> Zero,
     trades |-> <<>>,
     dailyValues |-> <<>>]

\* ((maxValue - currentValue) / maxValue) * 100
DrawdownPct(maxValue, currentValue) ==
    Mul(Div(R(maxValue - currentValue), R(maxValue)), R(100))

\* Faulty variant of LoopBody: the day's value recorded before the trade's P&L
\* is added
LoopBodyStaleValue(request, a, draw) ==
    LET currentDate == request.startDate + a.i * TicksPerDay
        trade == MakeTrade(currentDate, draw[1])
        value == IF draw = <<>> THEN a.currentValue ELSE a.currentValue + trade.pnl
        maxV == IF value > a.maxValue THEN value ELSE a.maxValue
        drawdown == DrawdownPct(maxV, value)
    IN  [i |-> a.i + 1,
         currentValue |-> value,
         maxValue |-> maxV,
         maxDrawdown |-> IF Less(a.maxDrawdown, drawdown) THEN drawdown ELSE a.maxDrawdown,
         trades |-> IF draw = <<>> THEN a.trades ELSE Append(a.trades, trade),
         dailyValues |-> Append(a.dailyValues,
                                [date |-> currentDate, value |-> a.currentValue])]

\* One iteration of the day loop (lines 790-828).  draw is <<>> when
\* Math.random() < 0.1 fails, else <<d>> with the trade's draws d.
LoopBody(request, a, draw) ==
    LET currentDate == request.startDate + a.i * TicksPerDay
        trade == MakeTrade(currentDate, draw[1])
        value == IF draw = <<>> THEN a.currentValue ELSE a.currentValue + trade.pnl
        maxV == IF value > a.maxValue THEN value ELSE a.maxValue
        drawdown == DrawdownPct(maxV, value)
    IN  [i |-> a.i + 1,
         currentValue |-> value,
         maxValue |-> maxV,
         maxDrawdown |-> IF Less(a.maxDrawdown, drawdown) THEN drawdown ELSE a.maxDrawdown,
         trades |-> IF draw = <<>> THEN a.trades ELSE Append(a.trades, trade),
         dailyValues |-> Append(a.dailyValues, [date |-> currentDate, value |-> value])]

\* dailyValues.slice(1).map((day, i) => (day.value - dailyValues[i].value) / dailyValues[i].value)
BacktestReturns(dailyValues) ==
    IF Len(dailyValues) < 2 THEN <<>>
    ELSE [i \in 1..(Len(dailyValues) - 1) |->
            Div(R(dailyValues[i + 1].value - dailyValues[i].value),
                R(dailyValues[i].value))]

\* returnStd > 0 ? (avgReturn / returnStd) * Math.sqrt(252) : 0   (lines 834-838)
BacktestSharpe(returns) ==
    LET avgReturn == Mean(returns)
        variance == Variance(returns)
    IN  IF StdPositive(returns)
        THEN Surd(Sign(avgReturn[1]),
                  Mul(Div(Mul(avgReturn, avgReturn), variance), R(252)))
        ELSE SurdZero

RECURSIVE SumPnl(_, _)
SumPnl(trades, keep) ==
    IF trades = <<>> THEN 0
    ELSE SumPnl(Tail(trades), keep)
         + (IF keep = Sign(Head(trades).pnl) THEN Head(trades).pnl ELSE 0)

\* Faulty variant of ProfitFactor: profits / losses without the zero-loss guard
ProfitFactorUnguarded(trades) ==
    Div(R(SumPnl(trades, 1)), R(Abs(SumPnl(trades, -1))))

\* lines 841-843
ProfitFactor(trades) ==
    LET profits == SumPnl(trades, 1)
        losses == Abs(SumPnl(trades, -1))
    IN  IF losses > 0 THEN Div(R(profits), R(losses))
        ELSE IF profits > 0 THEN R(999) ELSE Zero

\* The BacktestResult returned at lines 845-851.
SimulationResult(a) ==
    [trades |-> a.trades,
     dailyValues |-> a.dailyValues,
     maxDrawdown |-> a.maxDrawdown,
     sharpeRatio |-> BacktestSharpe(BacktestReturns(a.dailyValues)),
     profitFactor |-> ProfitFactor(a.trades)]

----------------------------------------------------------------------------
(* BacktestingService.runBacktest                                           *)

\* result.dailyValues[result.dailyValues.length - 1]?.value || request.initialCapital
FinalValue(dailyValues, initialCapital) ==
    IF dailyValues # <<>> /\ dailyValues[Len(dailyValues)].value # 0
    THEN dailyValues[Len(dailyValues)].value
    ELSE initialCapital

\* Faulty variant of TotalReturn: the gain taken relative to the final value
TotalReturnOverFinal(finalValue, initialCapital) ==
    Mul(Div(R(finalValue - initialCapital), R(finalValue)), R(100))

\* ((finalValue - request.initialCapital) / request.initialCapital) * 100
TotalReturn(finalValue, initialCapital) ==
    Mul(Div(R(finalValue - initialCapital), R(initialCapital)), R(100))

\* Faulty variant of CountPnl: break-even trades counted in both buckets
CountPnlWithZero(trades, keep) ==
    Cardinality({i \in 1..Len(trades) : Sign(trades[i].pnl) \in {keep, 0}})

CountPnl(trades, keep) ==
    Cardinality({i \in 1..Len(trades) : Sign(trades[i].pnl) = keep})

\* The InsertBacktest built at lines 741-761 plus the id createBacktest adds.
BacktestRow(id, request, strategy, res) ==
    LET finalValue == FinalValue(res.dailyValues, request.initialCapital)
    IN  [id |-> id,
         strategyId |-> request.strategyId,
         userId |-> strategy.userId,
         startDate |-> request.startDate,
         endDate |-> request.endDate,
         initialCapital |-> request.initialCapital,
         finalValue |-> finalValue,
         totalReturn |-> TotalReturn(finalValue, request.initialCapital),
         maxDrawdown |-> res.maxDrawdown,
         sharpeRatio |-> res.sharpeRatio,
         totalTrades |-> Len(res.trades),
         winningTrades |-> CountPnl(res.trades, 1),
         losingTrades |-> CountPnl(res.trades, -1),
         profitFactor |-> res.profitFactor,
         results |-> res]

----------------------------------------------------------------------------
(* POST /api/backtests, one step per stretch of code between two awaits;    *)
(* the day loop of simulateBacktest one iteration per step                  *)

NoRequest == [strategyId |-> 0, startDate |-> 0, endDate |-> 0, initialCapital |-> 0]

NoResult == SimulationResult(InitialAcc(NoRequest))

NoResponse == [status |-> 0, message |-> ""]

\* Request bodies of the right types.
Bodies ==
    [strategyId : StrategyIds, startDate : 0..MaxTick, endDate : 0..MaxTick,
     initialCapital : Capitals]

\* The bodies of the concurrent specification: a resolvable strategy, a valid
\* capital, one or two days.
ConcBodies ==
    {b \in Bodies : b.strategyId = 1 /\ b.initialCapital = 1000
                    /\ b.startDate = 0 /\ b.endDate \in {0, TicksPerDay}}

\* Faulty variant of Frame: the locals hoisted to one module-level accumulator
SharedFrame(p) == 1

\* The activation record holding the locals of invocation p of simulateBacktest
\* (the let/const declarations of lines 783-787 are per call).
Frame(p) == p

\* routes.ts 177-179: parse the body, then await tradingService.getStrategy
PostBacktests(p, body) ==
    /\ pc[p] = "idle"
    /\ req' = [req EXCEPT ![p] = body]
    /\ IF BacktestRequestSchemaOk(body)
       THEN /\ strat' = [strat EXCEPT ![p] = GetStrategy(body.strategyId)]
            /\ pc' = [pc EXCEPT ![p] = "routeCheck"]
            /\ UNCHANGED response
       ELSE /\ response' = [response EXCEPT ![p] =
                               [status |-> 400, message |-> "Validation error"]]
            /\ pc' = [pc EXCEPT ![p] = "done"]
            /\ UNCHANGED strat
    /\ UNCHANGED <<strategies, backtests, currentId, acc, result, simulated,
                   created, draws>>
    /\ UNCHANGED riskVars
    /\ UNCHANGED pureVars
    /\ UNCHANGED tradeVars
    /\ UNCHANGED orderVars

\* routes.ts 180-184 and runBacktest line 732: the ownership check, then
\* runBacktest awaits storage.getStrategy
RouteCheck(p) ==
    /\ pc[p] = "routeCheck"
    /\ IF ~strat[p].found \/ strat[p].userId # SessionUser
       THEN /\ response' = [response EXCEPT ![p] =
                               [status |-> 404, message |-> "Strategy not found"]]
            /\ pc' = [pc EXCEPT ![p] = "done"]
            /\ UNCHANGED strat
       ELSE /\ strat' = [strat EXCEPT ![p] = GetStrategy(req[p].strategyId)]
            /\ pc' = [pc EXCEPT ![p] = "svcCheck"]
            /\ UNCHANGED response
    /\ UNCHANGED <<strategies, backtests, currentId, req, acc, result, simulated,
                   created, draws>>
    /\ UNCHANGED riskVars
    /\ UNCHANGED pureVars
    /\ UNCHANGED tradeVars
    /\ UNCHANGED orderVars

\* Faulty variant of StrategyResolved: runBacktest without its own existence check
StrategyUnchecked(strategy) == TRUE

\* Whether runBacktest goes on to simulateBacktest with the strategy it read
\* (lines 733-735: if (!strategy) throw new Error("Strategy not found")).
StrategyResolved(strategy) == strategy.found

\* runBacktest 733-738 and simulateBacktest 779-787; the throw is caught at
\* routes.ts 186-188
RunBacktestCheck(p) ==
    /\ pc[p] = "svcCheck"
    /\ IF StrategyResolved(strat[p])
       THEN /\ simulated' = [simulated EXCEPT ![p] = TRUE]
            /\ acc' = [acc EXCEPT ![Frame(p)] = InitialAcc(req[p])]
            /\ pc' = [pc EXCEPT ![p] = "loop"]
            /\ UNCHANGED response
       ELSE /\ response' = [response EXCEPT ![p] =
                               [status |-> 400, message |-> "Strategy not found"]]
            /\ pc' = [pc EXCEPT ![p] = "done"]
            /\ UNCHANGED <<simulated, acc>>
    /\ UNCHANGED <<strategies, backtests, currentId, req, strat, result, created,
                   draws>>
    /\ UNCHANGED riskVars
    /\ UNCHANGED pureVars
    /\ UNCHANGED tradeVars
    /\ UNCHANGED orderVars

\* simulateBacktest 790-828, an iteration in which Math.random() < 0.1
LoopTrade(p) ==
    /\ pc[p] = "loop"
    /\ acc[Frame(p)].i <= DaysDiff(req[p])
    /\ \E r \in RandomSamples, d \in TradeDraws :
          /\ 10 * r < RandomDen
          /\ acc' = [acc EXCEPT ![Frame(p)] = LoopBody(req[p], acc[Frame(p)], <<d>>)]
          /\ draws' = [draws EXCEPT ![p] = Append(draws[p], <<d>>)]
    /\ UNCHANGED <<strategies, backtests, currentId, pc, req, strat, result,
                   response, simulated, created>>
    /\ UNCHANGED riskVars
    /\ UNCHANGED pureVars
    /\ UNCHANGED tradeVars
    /\ UNCHANGED orderVars

\* simulateBacktest 790-828, an iteration in which Math.random() >= 0.1
LoopNoTrade(p) ==
    /\ pc[p] = "loop"
    /\ acc[Frame(p)].i <= DaysDiff(req[p])
    /\ \E r \in RandomSamples :
          /\ ~(10 * r < RandomDen)
          /\ acc' = [acc EXCEPT ![Frame(p)] = LoopBody(req[p], acc[Frame(p)], <<>>)]
          /\ draws' = [draws EXCEPT ![p] = Append(draws[p], <<>>)]
    /\ UNCHANGED <<strategies, backtests, currentId, pc, req, strat, result,
                   response, simulated, created>>
    /\ UNCHANGED riskVars
    /\ UNCHANGED pureVars
    /\ UNCHANGED tradeVars
    /\ UNCHANGED orderVars

\* simulateBacktest 830-851: the loop is over, the result is returned
LoopExit(p) ==
    /\ pc[p] = "loop"
    /\ ~(acc[Frame(p)].i <= DaysDiff(req[p]))
    /\ result' = [result EXCEPT ![p] = SimulationResult(acc[Frame(p)])]
    /\ pc' = [pc EXCEPT ![p] = "persist"]
    /\ UNCHANGED <<strategies, backtests, currentId, req, strat, acc, response,
                   simulated, created, draws>>
    /\ UNCHANGED riskVars
    /\ UNCHANGED pureVars
    /\ UNCHANGED tradeVars
    /\ UNCHANGED orderVars

\* runBacktest 741-763 with MemStorage.createBacktest, then routes.ts 185
CreateBacktest(p) ==
    /\ pc[p] = "persist"
    /\ LET id == NextBacktestId
           row == BacktestRow(id, req[p], strat[p], result[p])
       IN  /\ backtests' = (id :> row) @@ backtests
           /\ currentId' = BumpedId(id)
           /\ created' = [created EXCEPT ![p] = created[p] \cup {id}]
    /\ response' = [response EXCEPT ![p] = [status |-> 200, message |-> "ok"]]
    /\ pc' = [pc EXCEPT ![p] = "done"]
    /\ UNCHANGED <<strategies, req, strat, acc, result, simulated, draws>>
    /\ UNCHANGED riskVars
    /\ UNCHANGED pureVars
    /\ UNCHANGED tradeVars
    /\ UNCHANGED orderVars

\* DELETE /api/strategies/:id by the owner: MemStorage.deleteStrategy
DeleteStrategy(id) ==
    /\ id \in DOMAIN strategies
    /\ strategies' = [k \in DOMAIN strategies \ {id} |-> strategies[k]]
    /\ UNCHANGED <<backtests, currentId, pc, req, strat, acc, result, response,
                   simulated, created, draws>>
    /\ UNCHANGED riskVars
    /\ UNCHANGED pureVars
    /\ UNCHANGED tradeVars
    /\ UNCHANGED orderVars

----------------------------------------------------------------------------
(* Storage: portfolio history                                               *)

\* At most MaxHistory rows are inserted.
MaxHistory == 2

\* The clock runs over 0..MaxClock (days).
MaxClock == 2

HistoryUsers == {1, 2}

\* The rows inserted: <<userId, totalValue>>
HistoryInserts == {<<1, 0>>, <<1, 50>>, <<1, 100>>, <<2, 50>>}

\* The limits asked of getPortfolioHistory directly.
Limits == {1, 2, 365}

\* sorted, with x put before the first element whose timestamp is smaller:
\* a stable (b.timestamp - a.timestamp) sort step
RECURSIVE InsertDesc(_, _)
InsertDesc(sorted, x) ==
    IF sorted = <<>> THEN <<x>>
    ELSE IF Head(sorted).timestamp < x.timestamp THEN <<x>> \o sorted
    ELSE <<Head(sorted)>> \o InsertDesc(Tail(sorted), x)

\* .sort((a, b) => b.timestamp.getTime() - a.timestamp.getTime()), stable
RECURSIVE SortDesc(_)
SortDesc(rows) ==
    IF rows = <<>> THEN <<>>
    ELSE InsertDesc(SortDesc(SubSeq(rows, 1, Len(rows) - 1)), rows[Len(rows)])

RECURSIVE InsertAsc(_, _)
InsertAsc(sorted, x) ==
    IF sorted = <<>> THEN <<x>>
    ELSE IF Head(sorted).timestamp > x.timestamp THEN <<x>> \o sorted
    ELSE <<Head(sorted)>> \o InsertAsc(Tail(sorted), x)

\* .orderBy(portfolioHistory.timestamp); rows of equal timestamp in insertion order
RECURSIVE SortAsc(_)
SortAsc(rows) ==
    IF rows = <<>> THEN <<>>
    ELSE InsertAsc(SortAsc(SubSeq(rows, 1, Len(rows) - 1)), rows[Len(rows)])

RECURSIVE FilterUser(_, _)
FilterUser(rows, userId) ==
    IF rows = <<>> THEN <<>>
    ELSE (IF Head(rows).userId = userId THEN <<Head(rows)>> ELSE <<>>)
         \o FilterUser(Tail(rows), userId)

\* .slice(0, limit) / .limit(limit)
Take(rows, limit) == SubSeq(rows, 1, IF limit < Len(rows) THEN limit ELSE Len(rows))

\* MemStorage.getPortfolioHistory (storage.ts 235-240)
MemGetPortfolioHistory(rows, userId, limit) ==
    Take(SortDesc(FilterUser(rows, userId)), limit)

\* DatabaseStorage.getPortfolioHistory (routes.ts 873-880)
DbGetPortfolioHistory(rows, userId, limit) ==
    Take(SortAsc(FilterUser(rows, userId)), limit)

\* storage.getPortfolioHistory(userId, limit) of the exported storage
GetPortfolioHistory(userId, limit) ==
    IF storageKind = "mem"
    THEN MemGetPortfolioHistory(portfolioHistory, userId, limit)
    ELSE DbGetPortfolioHistory(portfolioHistory, userId, limit)

----------------------------------------------------------------------------
(* RiskManagementService: the metric functions                              *)

\* The limit getPortfolioRiskMetrics passes (lines 159 and 194).
RiskWindow == 365

OneDay == 1

OneWeek == 7

OneMonth == 30

\* The loop and the result of calculateDrawdown (lines 91-112) on a fetched history.
RECURSIVE DrawdownLoop(_, _, _)
DrawdownLoop(hist, peak, maxDrawdown) ==
    IF hist = <<>> THEN [peak |-> peak, maxDrawdown |-> maxDrawdown]
    ELSE LET v == Head(hist).totalValue
             pk == IF v > peak THEN v ELSE peak
         IN  DrawdownLoop(Tail(hist), pk, MathMax(maxDrawdown, DrawdownPct(pk, v)))

DrawdownOf(hist) ==
    IF Len(hist) = 0 THEN [currentDrawdown |-> Zero, maxDrawdown |-> Zero]
    ELSE LET l == DrawdownLoop(hist, hist[1].totalValue, Zero)
         IN  [currentDrawdown |-> DrawdownPct(l.peak, hist[Len(hist)].totalValue),
              maxDrawdown |-> l.maxDrawdown]

\* calculateDailyReturns (lines 212-221)
CalculateDailyReturns(hist) ==
    IF Len(hist) < 2 THEN <<>>
    ELSE [i \in 1..(Len(hist) - 1) |->
            Div(R(hist[i + 1].totalValue - hist[i].totalValue),
                R(hist[i].totalValue))]

\* calculateVolatility (lines 223-229): Math.sqrt(variance) * Math.sqrt(252)
CalculateVolatility(returns) ==
    IF Len(returns) = 0 THEN SurdZero
    ELSE LET q == Mul(Variance(returns), R(252))
         IN  Surd(IF StdPositive(returns) THEN 1 ELSE 0, q)

\* The default riskFreeRate, 0.05
RiskFreeRate == <<1, 20>>

\* calculateSharpeRatio (lines 231-239)
CalculateSharpeRatio(returns) ==
    IF Len(returns) = 0 THEN SurdZero
    ELSE LET annualizedReturn == Mul(Mean(returns), R(252))
             volatility == CalculateVolatility(returns)
             excess == Sub(annualizedReturn, RiskFreeRate)
         IN  IF volatility.s > 0
             THEN Surd(Sign(excess[1]), Div(Mul(excess, excess), volatility.q))
             ELSE SurdZero

RECURSIVE InsertNum(_, _)
InsertNum(sorted, x) ==
    IF sorted = <<>> THEN <<x>>
    ELSE IF Less(x, Head(sorted)) THEN <<x>> \o sorted
    ELSE <<Head(sorted)>> \o InsertNum(Tail(sorted), x)

\* [...returns].sort((a, b) => a - b)
RECURSIVE SortNum(_)
SortNum(s) ==
    IF s = <<>> THEN <<>>
    ELSE InsertNum(SortNum(SubSeq(s, 1, Len(s) - 1)), s[Len(s)])

\* Faulty variant of CalculateVaR: the index applied to the list as given
CalculateVaRUnsorted(returns) ==
    IF Len(returns) = 0 THEN Zero
    ELSE LET x == returns[(Len(returns) \div 20) + 1]
         IN  IF IsNaN(x) \/ x = Zero THEN Zero ELSE MathAbs(x)

\* The caller's list after calculateVaR: the sort works on the copy [...returns]
ListAfterVaR(returns) == returns

\* calculateVaR (lines 241-247) at confidence 0.95:
\* Math.abs(sortedReturns[Math.floor((1 - confidence) * n)] || 0)
CalculateVaR(returns) ==
    IF Len(returns) = 0 THEN Zero
    ELSE LET x == SortNum(returns)[(Len(returns) \div 20) + 1]
         IN  IF IsNaN(x) \/ x = Zero THEN Zero ELSE MathAbs(x)

\* Faulty variant of WindowPnL: Date.now() read again after the awaited calculateDrawdown
WindowPnLLateClock(hist, clock, window) ==
    IF \E i \in 1..Len(hist) : hist[i].timestamp >= now - window
    THEN hist[Len(hist)].totalValue
         - hist[CHOOSE i \in 1..Len(hist) :
                  /\ hist[i].timestamp >= now - window
                  /\ \A j \in 1..(i - 1) : hist[j].timestamp < now - window].totalValue
    ELSE 0

\* portfolioHistory.find(h => h.timestamp >= since): <<the row>>, or <<>>
RECURSIVE FindSince(_, _)
FindSince(hist, since) ==
    IF hist = <<>> THEN <<>>
    ELSE IF Head(hist).timestamp >= since THEN <<Head(hist)>>
    ELSE FindSince(Tail(hist), since)

\* portfolioHistory.find(h => h.timestamp >= new Date(Date.now() - window)),
\* then current.totalValue - found.totalValue, or 0 (lines 175-191)
WindowPnL(hist, clock, window) ==
    LET found == FindSince(hist, clock - window)
    IN  IF found = <<>> THEN 0
        ELSE hist[Len(hist)].totalValue - found[1].totalValue

\* lines 161-173
EmptyMetrics ==
    [totalValue |-> 0, dailyPnL |-> 0, weeklyPnL |-> 0, monthlyPnL |-> 0,
     maxDrawdown |-> Zero, currentDrawdown |-> Zero, sharpeRatio |-> SurdZero,
     volatility |-> SurdZero, varDaily |-> Zero]

\* The history calculateDrawdown works on when getPortfolioRiskMetrics awaits
\* it at line 194: calculateDrawdown fetches for itself (line 89).
DrawdownInput(own, refetched) == refetched

\* lines 175-209: the result, from the history fetched at line 159 (hist), the
\* clock at lines 179-187 and the result of the awaited calculateDrawdown
RiskMetrics(hist, clock, drawdown) ==
    LET returns == CalculateDailyReturns(hist)
    IN  [totalValue |-> hist[Len(hist)].totalValue,
         dailyPnL |-> WindowPnL(hist, clock, OneDay),
         weeklyPnL |-> WindowPnL(hist, clock, OneWeek),
         monthlyPnL |-> WindowPnL(hist, clock, OneMonth),
         maxDrawdown |-> drawdown.maxDrawdown,
         currentDrawdown |-> drawdown.currentDrawdown,
         sharpeRatio |-> CalculateSharpeRatio(returns),
         volatility |-> CalculateVolatility(returns),
         varDaily |-> CalculateVaR(returns)]

----------------------------------------------------------------------------
(* Portfolio history and risk metrics: the operations                       *)

\* The getPortfolioRiskMetrics calls whose results are kept and compared.
Calls == {1, 2}

NoFetch ==
    [op |-> "none", userId |-> 0, limit |-> 0, store |-> <<>>, rows |-> <<>>,
     out |-> DrawdownOf(<<>>)]

NoPart == [at |-> 0, refetched |-> <<>>]

\* The clock advances by a day.
Tick ==
    /\ now < MaxClock
    /\ now' = now + 1
    /\ UNCHANGED <<portfolioHistory, storageKind, rpc, rsnap, rpart, rlog, fetched>>
    /\ UNCHANGED btVars
    /\ UNCHANGED pureVars
    /\ UNCHANGED tradeVars
    /\ UNCHANGED orderVars

\* storage.createPortfolioHistory: timestamp new Date() / defaultNow()
CreatePortfolioHistory(userId, totalValue) ==
    /\ Len(portfolioHistory) < MaxHistory
    /\ portfolioHistory' =
          Append(portfolioHistory,
                 [userId |-> userId, totalValue |-> totalValue, timestamp |-> now])
    /\ UNCHANGED <<storageKind, now, rpc, rsnap, rpart, rlog, fetched>>
    /\ UNCHANGED btVars
    /\ UNCHANGED pureVars
    /\ UNCHANGED tradeVars
    /\ UNCHANGED orderVars

\* GET /api/risk/metrics: getPortfolioRiskMetrics line 159, the fetch it awaits
RiskFetch ==
    /\ rpc = "idle"
    /\ Cardinality(rlog) < Cardinality(Calls)
    /\ rsnap' = GetPortfolioHistory(SessionUser, RiskWindow)
    /\ rpc' = "compute"
    /\ UNCHANGED <<portfolioHistory, storageKind, now, rpart, rlog, fetched>>
    /\ UNCHANGED btVars
    /\ UNCHANGED pureVars
    /\ UNCHANGED tradeVars
    /\ UNCHANGED orderVars

\* lines 161-194, up to the fetch that the awaited calculateDrawdown makes (line 89)
RiskCompute ==
    /\ rpc = "compute"
    /\ IF Len(rsnap) = 0
       THEN /\ rlog' = rlog \cup {[at |-> now, h1 |-> rsnap, h2 |-> rsnap,
                                   out |-> EmptyMetrics]}
            /\ rpc' = "idle"
            /\ rpart' = NoPart
       ELSE /\ rpart' = [at |-> now,
                         refetched |-> GetPortfolioHistory(SessionUser, RiskWindow)]
            /\ rpc' = "finish"
            /\ UNCHANGED rlog
    /\ UNCHANGED <<portfolioHistory, storageKind, now, rsnap, fetched>>
    /\ UNCHANGED btVars
    /\ UNCHANGED pureVars
    /\ UNCHANGED tradeVars
    /\ UNCHANGED orderVars

\* calculateDrawdown 91-112, then getPortfolioRiskMetrics 195-209
RiskFinish ==
    /\ rpc = "finish"
    /\ rlog' = rlog \cup
          {[at |-> rpart.at, h1 |-> rsnap, h2 |-> rpart.refetched,
            out |-> RiskMetrics(rsnap, rpart.at,
                                DrawdownOf(DrawdownInput(rsnap, rpart.refetched)))]}
    /\ rpc' = "idle"
    /\ rpart' = NoPart
    /\ UNCHANGED <<portfolioHistory, storageKind, now, rsnap, fetched>>
    /\ UNCHANGED btVars
    /\ UNCHANGED pureVars
    /\ UNCHANGED tradeVars
    /\ UNCHANGED orderVars

\* A direct storage.getPortfolioHistory(userId, limit) call
FetchHistory(userId, limit) ==
    /\ fetched' = [op |-> "history", userId |-> userId, limit |-> limit,
                   store |-> portfolioHistory,
                   rows |-> GetPortfolioHistory(userId, limit),
                   out |-> DrawdownOf(<<>>)]
    /\ UNCHANGED <<portfolioHistory, storageKind, now, rpc, rsnap, rpart, rlog>>
    /\ UNCHANGED btVars
    /\ UNCHANGED pureVars
    /\ UNCHANGED tradeVars
    /\ UNCHANGED orderVars

\* riskManagementService.calculateDrawdown(userId, days)
CalculateDrawdown(userId, days) ==
    /\ LET hist == GetPortfolioHistory(userId, days)
       IN  fetched' = [op |-> "drawdown", userId |-> userId, limit |-> days,
                       store |-> portfolioHistory, rows |-> hist,
                       out |-> DrawdownOf(hist)]
    /\ UNCHANGED <<portfolioHistory, storageKind, now, rpc, rsnap, rpart, rlog>>
    /\ UNCHANGED btVars
    /\ UNCHANGED pureVars
    /\ UNCHANGED tradeVars
    /\ UNCHANGED orderVars

----------------------------------------------------------------------------
(* POST /api/trades, TradingService.executeTrade and                        *)
(* RiskManagementService.checkDailyLossLimit                                *)

\* At most MaxTrades trades are submitted.
MaxTrades == 3

\* defaultRiskParams.maxDailyLoss
MaxDailyLoss == 5000

\* A trade's pnl column is nullable: <<>> is null, <<v>> the number v.
NullPnl == <<>>

\* The sessions that submit trades
TradeUsers == {1, 2}

\* Bodies insertTradeSchema.omit({userId}) accepts; symbol, side, quantity and
\* price play no part in what follows and are left out.
TradeBodies == [strategyId : {1, 3}, pnl : {NullPnl, <<-3000>>, <<1000>>}]

NoLossCheck == [exceeded |-> FALSE, currentLoss |-> 0, limit |-> 0]

\* storage.getTradesByUser
GetTradesByUser(userId) ==
    SelectSeq(tradesTable, LAMBDA trade : trade.userId = userId)

\* The reduce of checkDailyLossLimit: sum + (trade.pnl || 0)
RECURSIVE TodayLossOf(_)
TodayLossOf(rows) ==
    IF rows = <<>> THEN 0
    ELSE TodayLossOf(SubSeq(rows, 1, Len(rows) - 1)) + rows[Len(rows)].pnl[1]

\* checkDailyLossLimit: today is the wall clock at midnight; the clock of the
\* model counts days
CheckDailyLossLimit(userId) ==
    LET today == now
        todayTrades == GetTradesByUser(userId)
        todayLoss ==
            TodayLossOf(SelectSeq(todayTrades,
                LAMBDA trade : trade.executedAt >= today /\ trade.pnl # NullPnl))
    IN  [exceeded |-> todayLoss < -MaxDailyLoss,
         currentLoss |-> IF todayLoss < 0 THEN -todayLoss ELSE todayLoss,
         limit |-> MaxDailyLoss]

\* MemStorage.createTrade: id from this.currentId++, executedAt new Date()
CreateTrade(userId, body) ==
    [id |-> currentId, userId |-> userId, strategyId |-> body.strategyId,
     pnl |-> body.pnl, executedAt |-> now]

\* executeTrade lines 38-46: the statistics of the trade's strategy, when the
\* trade carries a pnl and the strategy exists
UpdatedStats(trade) ==
    IF trade.pnl # NullPnl /\ trade.strategyId \in DOMAIN strategies
    THEN [strategyStats EXCEPT ![trade.strategyId] =
            [totalPnL |-> @.totalPnL + trade.pnl[1],
             totalTrades |-> @.totalTrades + 1]]
    ELSE strategyStats

\* POST /api/trades (routes.ts 223-234) and executeTrade (part_000 34-49)
PostTrades(userId, body) ==
    /\ Len(tradesTable) < MaxTrades
    /\ tradesTable' = Append(tradesTable, CreateTrade(userId, body))
    /\ currentId' = BumpedId(currentId)
    /\ strategyStats' = UpdatedStats(CreateTrade(userId, body))
    /\ tradeResponse' = [status |-> 200, message |-> "trade"]
    /\ UNCHANGED <<lossCheck, execCalls>>
    /\ UNCHANGED <<strategies, backtests, pc, req, strat, acc, result, response,
                   simulated, created, draws>>
    /\ UNCHANGED riskVars
    /\ UNCHANGED pureVars
    /\ UNCHANGED orderVars

\* GET /api/risk/daily-loss (routes.ts 477-484)
GetDailyLoss(userId) ==
    /\ lossCheck' = CheckDailyLossLimit(userId)
    /\ UNCHANGED <<tradesTable, strategyStats, tradeResponse, execCalls>>
    /\ UNCHANGED btVars
    /\ UNCHANGED riskVars
    /\ UNCHANGED pureVars
    /\ UNCHANGED orderVars

----------------------------------------------------------------------------
(* TradingService.executeTrade, one step per stretch between two awaits     *)

\* The executeTrade calls that may be in progress together
ExecCalls == {1, 2}

\* The trades they execute: all on strategy 1
ExecBodies == {body \in TradeBodies : body.strategyId = 1}

NoStats == [found |-> FALSE, totalPnL |-> 0, totalTrades |-> 0]

NoExec == [pc |-> "idle", pnl |-> NullPnl, strategyId |-> 0, strategy |-> NoStats]

\* storage.getStrategy(id), the statistics of the row
GetStrategyStats(id) ==
    IF id \in DOMAIN strategies
    THEN [found |-> TRUE, totalPnL |-> strategyStats[id].totalPnL,
          totalTrades |-> strategyStats[id].totalTrades]
    ELSE NoStats

\* storage.updateStrategy(id, {totalPnL, totalTrades}): the columns are set to
\* the values handed in
UpdateStrategy(id, totalPnL, totalTrades) ==
    IF id \in DOMAIN strategies
    THEN [strategyStats EXCEPT ![id] = [totalPnL |-> totalPnL, totalTrades |-> totalTrades]]
    ELSE strategyStats

\* executeTrade line 35: await storage.createTrade(tradeData)
ExecCreateTrade(c, body) ==
    /\ execCalls[c].pc = "idle"
    /\ Len(tradesTable) < MaxTrades
    /\ tradesTable' = Append(tradesTable, CreateTrade(SessionUser, body))
    /\ currentId' = BumpedId(currentId)
    /\ execCalls' = [execCalls EXCEPT ![c] =
                        [pc |-> "created", pnl |-> body.pnl,
                         strategyId |-> body.strategyId, strategy |-> NoStats]]
    /\ UNCHANGED <<strategyStats, tradeResponse, lossCheck>>
    /\ UNCHANGED <<strategies, backtests, pc, req, strat, acc, result, response,
                   simulated, created, draws>>
    /\ UNCHANGED riskVars
    /\ UNCHANGED pureVars
    /\ UNCHANGED orderVars

\* executeTrade lines 38-39: the pnl test, then await storage.getStrategy
ExecGetStrategy(c) ==
    /\ execCalls[c].pc = "created"
    /\ execCalls' = [execCalls EXCEPT ![c] =
                        IF execCalls[c].pnl # NullPnl
                        THEN [@ EXCEPT !.pc = "read",
                                       !.strategy =
                                           GetStrategyStats(execCalls[c].strategyId)]
                        ELSE NoExec]
    /\ UNCHANGED <<tradesTable, strategyStats, tradeResponse, lossCheck>>
    /\ UNCHANGED btVars
    /\ UNCHANGED riskVars
    /\ UNCHANGED pureVars
    /\ UNCHANGED orderVars

\* executeTrade lines 40-48: await storage.updateStrategy with the sums taken
\* on the strategy read before, and the return
ExecUpdateStrategy(c) ==
    /\ execCalls[c].pc = "read"
    /\ strategyStats' =
          IF execCalls[c].strategy.found
          THEN UpdateStrategy(execCalls[c].strategyId,
                              execCalls[c].strategy.totalPnL + execCalls[c].pnl[1],
                              execCalls[c].strategy.totalTrades + 1)
          ELSE strategyStats
    /\ execCalls' = [execCalls EXCEPT ![c] = NoExec]
    /\ UNCHANGED <<tradesTable, tradeResponse, lossCheck>>
    /\ UNCHANGED btVars
    /\ UNCHANGED riskVars
    /\ UNCHANGED pureVars
    /\ UNCHANGED orderVars

----------------------------------------------------------------------------
(* AdvancedOrdersService: iceberg orders                                    *)

\* Total quantities run over 1..MaxQuantity.
MaxQuantity == 4

\* At most MaxMonitorCalls runs of monitorIcebergOrders are in progress at once.
MaxMonitorCalls == 2

\* The call createIcebergOrder makes
CreateCall == 0

\* The calls made by runs of monitorIcebergOrders
MonitorCalls == 1..MaxMonitorCalls

Callers == {CreateCall} \cup MonitorCalls

\* totalQuantity and visibleQuantity of a request: a positive total and a
\* positive visible part no larger than it
IcebergQuantities ==
    {q \in (1..MaxQuantity) \X (1..MaxQuantity) : q[2] <= q[1]}

NoCall == [pc |-> "idle", order |-> 0, quantityToOrder |-> 0]

\* Math.min(order.visibleQuantity, order.remainingQuantity)
QuantityToOrder(order) ==
    IF order.visibleQuantity <= order.remainingQuantity
    THEN order.visibleQuantity
    ELSE order.remainingQuantity

\* processIcebergOrder up to its await (lines 218-225): the early return, or
\* the request sent to the broker
ProcessStart(id, order) ==
    IF order.remainingQuantity <= 0 \/ order.status # "ACTIVE"
    THEN NoCall
    ELSE [pc |-> "placing", order |-> id, quantityToOrder |-> QuantityToOrder(order)]

\* The IcebergOrder built at lines 196-209
NewIcebergOrder(totalQuantity, visibleQuantity) ==
    [totalQuantity |-> totalQuantity,
     visibleQuantity |-> visibleQuantity,
     executedQuantity |-> 0,
     remainingQuantity |-> totalQuantity,
     status |-> "ACTIVE",
     childOrders |-> <<>>]

\* createIcebergOrder (lines 188-215) up to the await inside the
\* processIcebergOrder it calls; the first order only
CreateIcebergOrder(totalQuantity, visibleQuantity) ==
    /\ orderIdCounter = 1
    /\ icebergOrders' =
          icebergOrders @@ (orderIdCounter :> NewIcebergOrder(totalQuantity, visibleQuantity))
    /\ orderIdCounter' = orderIdCounter + 1
    /\ processCalls' =
          [processCalls EXCEPT ![CreateCall] =
              ProcessStart(orderIdCounter, NewIcebergOrder(totalQuantity, visibleQuantity))]
    /\ UNCHANGED placedOrders
    /\ UNCHANGED btVars
    /\ UNCHANGED riskVars
    /\ UNCHANGED pureVars
    /\ UNCHANGED tradeVars
    /\ UNCHANGED timeVars
    /\ UNCHANGED stopVars

\* A timer tick (line 308): monitorIcebergOrders (lines 449-459) up to the
\* await inside processIcebergOrder, for the one order there is
MonitorIcebergOrders(c) ==
    /\ processCalls[c].pc = "idle"
    /\ \E id \in DOMAIN icebergOrders :
          /\ icebergOrders[id].status = "ACTIVE"
          /\ icebergOrders[id].remainingQuantity > 0
          /\ processCalls' =
                [processCalls EXCEPT ![c] = ProcessStart(id, icebergOrders[id])]
    /\ UNCHANGED <<icebergOrders, orderIdCounter, placedOrders>>
    /\ UNCHANGED btVars
    /\ UNCHANGED riskVars
    /\ UNCHANGED pureVars
    /\ UNCHANGED tradeVars
    /\ UNCHANGED timeVars
    /\ UNCHANGED stopVars

\* The order after lines 235-242, for a child of quantityToOrder placed as
\* child number orderid
AfterChild(order, orderid, quantityToOrder) ==
    [order EXCEPT
        !.childOrders = Append(@, orderid),
        !.executedQuantity = @ + quantityToOrder,
        !.remainingQuantity = @ - quantityToOrder,
        !.status = IF order.remainingQuantity - quantityToOrder <= 0
                   THEN "COMPLETED" ELSE @]

\* placeOrder answers with status "success": lines 235-242
PlaceOrderSucceeds(c) ==
    /\ processCalls[c].pc = "placing"
    /\ placedOrders' = Append(placedOrders,
                              [order |-> processCalls[c].order,
                               quantity |-> processCalls[c].quantityToOrder])
    /\ icebergOrders' =
          [icebergOrders EXCEPT ![processCalls[c].order] =
              AfterChild(@, Len(placedOrders) + 1, processCalls[c].quantityToOrder)]
    /\ processCalls' = [processCalls EXCEPT ![c] = NoCall]
    /\ UNCHANGED orderIdCounter
    /\ UNCHANGED btVars
    /\ UNCHANGED riskVars
    /\ UNCHANGED pureVars
    /\ UNCHANGED tradeVars
    /\ UNCHANGED timeVars
    /\ UNCHANGED stopVars

\* placeOrder answers with another status, or throws (lines 244-246)
PlaceOrderFails(c) ==
    /\ processCalls[c].pc = "placing"
    /\ processCalls' = [processCalls EXCEPT ![c] = NoCall]
    /\ UNCHANGED <<icebergOrders, orderIdCounter, placedOrders>>
    /\ UNCHANGED btVars
    /\ UNCHANGED riskVars
    /\ UNCHANGED pureVars
    /\ UNCHANGED tradeVars
    /\ UNCHANGED timeVars
    /\ UNCHANGED stopVars

\* cancelIcebergOrder (lines 505-512)
CancelIcebergOrder(id) ==
    /\ icebergOrders[id].status = "ACTIVE"
    /\ icebergOrders' = [icebergOrders EXCEPT ![id].status = "CANCELLED"]
    /\ UNCHANGED <<orderIdCounter, processCalls, placedOrders>>
    /\ UNCHANGED btVars
    /\ UNCHANGED riskVars
    /\ UNCHANGED pureVars
    /\ UNCHANGED tradeVars
    /\ UNCHANGED timeVars
    /\ UNCHANGED stopVars

----------------------------------------------------------------------------
(* AdvancedOrdersService: time-based orders.  The monitor timer calls        *)
(* processTimeBasedOrders once a minute; a run yields at each await          *)

\* The ord clock runs over 0..MaxMinute.
MaxMinute == 4

\* At most MaxTimeOrders time-based orders are created.
MaxTimeOrders == 2

\* The runs of processTimeBasedOrders that can be in progress at once.
TimeTicks == {1, 2}

\* The createTimeBasedOrder calls of the sample: the schedule type with its
\* options; executeAt and intervalMinutes are 0 where the option is absent,
\* maxExecutions is 0 where it is absent.
TimeOrderRequests ==
    {[scheduleType |-> "INTERVAL", executeAt |-> 0, intervalMinutes |-> 2,
      maxExecutions |-> m] : m \in {0, 3}}
    \cup {[scheduleType |-> "SPECIFIC_TIME", executeAt |-> 2,
           intervalMinutes |-> 0, maxExecutions |-> 0]}

NoTimeTick == [pc |-> "idle", now |-> 0, todo |-> <<>>, order |-> 0, sentAt |-> 0]

\* options.maxExecutions || 1
MaxExecutionsOf(options) == IF options.maxExecutions = 0 THEN 1 ELSE options.maxExecutions

NewTimeBasedOrder(options, createdAt) ==
    [scheduleType |-> options.scheduleType, executeAt |-> options.executeAt,
     intervalMinutes |-> options.intervalMinutes,
     maxExecutions |-> MaxExecutionsOf(options), executionCount |-> 0,
     status |-> "SCHEDULED", createdAt |-> createdAt]

\* The ids of a set in increasing ord: the iteration ord of the Map, whose
\* keys are inserted in the ord of orderIdCounter.
RECURSIVE InOrder(_)
InOrder(ids) ==
    IF ids = {} THEN <<>>
    ELSE LET least == CHOOSE i \in ids : \A j \in ids : i <= j
         IN  <<least>> \o InOrder(ids \ {least})

\* scheduledOrders of processTimeBasedOrders
ScheduledOrders(orders) ==
    InOrder({id \in DOMAIN orders : orders[id].status \in {"SCHEDULED", "ACTIVE"}})

\* nextExecution of the INTERVAL case: lastExecution is order.createdAt
NextExecution(ord) == ord.createdAt + ord.intervalMinutes

\* The switch of processTimeBasedOrders on one order: the order after it and
\* shouldExecute.
Switch(ord, tickNow) ==
    CASE ord.scheduleType = "SPECIFIC_TIME" ->
            [order |-> ord,
             shouldExecute |-> ord.executeAt # 0 /\ tickNow >= ord.executeAt]
      [] ord.scheduleType = "INTERVAL" /\ ord.status = "SCHEDULED" ->
            [order |-> [ord EXCEPT !.status = "ACTIVE"], shouldExecute |-> TRUE]
      [] ord.scheduleType = "INTERVAL" /\ ord.status # "SCHEDULED" ->
            [order |-> ord,
             shouldExecute |-> ord.intervalMinutes # 0
                               /\ tickNow >= NextExecution(ord)]

\* The for loop of processTimeBasedOrders from the orders still to visit up to
\* its next await: the orders after it, the orders left to visit and the
\* order whose placeOrder is awaited (0 where the loop has ended).
RECURSIVE RunLoop(_, _, _)
RunLoop(orders, todo, tickNow) ==
    IF todo = <<>> THEN [orders |-> orders, todo |-> <<>>, order |-> 0]
    ELSE LET id == Head(todo)
             sw == Switch(orders[id], tickNow)
             after == [orders EXCEPT ![id] = sw.order]
         IN  IF sw.shouldExecute
                /\ sw.order.executionCount < sw.order.maxExecutions
             THEN [orders |-> after, todo |-> Tail(todo), order |-> id]
             ELSE RunLoop(after, Tail(todo), tickNow)

\* The run t after the loop has gone on from todo.
Continue(t, orders, todo, tickNow) ==
    LET loop == RunLoop(orders, todo, tickNow)
    IN  /\ timeBasedOrders' = loop.orders
        /\ timeTicks' = [timeTicks EXCEPT ![t] =
              IF loop.order = 0 THEN NoTimeTick
              ELSE [pc |-> "placing", now |-> tickNow, todo |-> loop.todo,
                    order |-> loop.order, sentAt |-> orderClock']]

OtherGroupsUnchangedByTime ==
    /\ UNCHANGED <<icebergOrders, processCalls, placedOrders>>
    /\ UNCHANGED stopVars
    /\ UNCHANGED btVars
    /\ UNCHANGED riskVars
    /\ UNCHANGED pureVars
    /\ UNCHANGED tradeVars

CreateTimeBasedOrder(options) ==
    /\ Cardinality(DOMAIN timeBasedOrders) < MaxTimeOrders
    /\ timeBasedOrders' = (orderIdCounter :> NewTimeBasedOrder(options, orderClock))
                          @@ timeBasedOrders
    /\ orderIdCounter' = orderIdCounter + 1
    /\ UNCHANGED <<orderClock, timeTicks, executions>>
    /\ OtherGroupsUnchangedByTime

\* The timer fires a minute after it last did and run t starts.
ProcessTimeBasedOrders(t) ==
    /\ orderClock < MaxMinute
    /\ timeTicks[t].pc = "idle"
    /\ orderClock' = orderClock + 1
    /\ Continue(t, timeBasedOrders, ScheduledOrders(timeBasedOrders), orderClock')
    /\ UNCHANGED <<orderIdCounter, executions>>
    /\ OtherGroupsUnchangedByTime

\* placeOrder answers success: the rest of executeTimeBasedOrder up to the
\* await of the alert.
ExecuteSucceeds(t) ==
    /\ timeTicks[t].pc = "placing"
    /\ LET id == timeTicks[t].order
           count == timeBasedOrders[id].executionCount + 1
       IN  /\ timeBasedOrders' = [timeBasedOrders EXCEPT
                 ![id].executionCount = count,
                 ![id].status = IF count >= timeBasedOrders[id].maxExecutions
                                THEN "COMPLETED" ELSE @]
           /\ executions' = Append(executions,
                 [order |-> id, at |-> timeTicks[t].sentAt])
    /\ timeTicks' = [timeTicks EXCEPT ![t].pc = "alerting"]
    /\ UNCHANGED <<orderClock, orderIdCounter>>
    /\ OtherGroupsUnchangedByTime

\* The alert is done and the loop goes on.
AlertDone(t) ==
    /\ timeTicks[t].pc = "alerting"
    /\ UNCHANGED <<orderClock, orderIdCounter, executions>>
    /\ Continue(t, timeBasedOrders, timeTicks[t].todo, timeTicks[t].now)
    /\ OtherGroupsUnchangedByTime

\* placeOrder throws or answers without success: the loop goes on at once.
ExecuteFails(t) ==
    /\ timeTicks[t].pc = "placing"
    /\ UNCHANGED <<orderClock, orderIdCounter, executions>>
    /\ Continue(t, timeBasedOrders, timeTicks[t].todo, timeTicks[t].now)
    /\ OtherGroupsUnchangedByTime

CancelTimeBasedOrder(id) ==
    /\ id \in DOMAIN timeBasedOrders
    /\ timeBasedOrders[id].status \in {"SCHEDULED", "ACTIVE"}
    /\ timeBasedOrders' = [timeBasedOrders EXCEPT ![id].status = "CANCELLED"]
    /\ UNCHANGED <<orderClock, orderIdCounter, timeTicks, executions>>
    /\ OtherGroupsUnchangedByTime

-----------------------------------------------------------------------------

(* AdvancedOrdersService: trailing stop orders.  The monitor timer calls     *)
(* updateTrailingStops every ten seconds; a run yields at each await.        *)
(* Prices are whole rupees and the sample percentages give whole stops.      *)

\* At most MaxSeen prices are processed for one trailing stop, the price at
\* its creation included.
MaxSeen == 3

\* At most MaxStopOrders trailing stops are created.
MaxStopOrders == 1

\* The runs of updateTrailingStops that can be in progress at once.
StopTicks == {1, 2}

\* The last traded prices the market data service can answer.
Prices == {90, 100, 110, 120}

\* The createTrailingStopOrder calls of the sample; trailPercent is 0 where
\* the argument is absent.
StopRequests == [trailAmount : {10}, trailPercent : {0, 10}]

NoStopTick == [pc |-> "idle", todo |-> <<>>, order |-> 0]

\* The stop price of an order whose highest price is highest:
\* trailPercent ? highest * (1 - trailPercent / 100) : highest - trailAmount
StopPrice(ord, highest) ==
    IF ord.trailPercent # 0
    THEN (highest * (100 - ord.trailPercent)) \div 100
    ELSE highest - ord.trailAmount

NewTrailingStopOrder(options, currentPrice) ==
    [trailAmount |-> options.trailAmount, trailPercent |-> options.trailPercent,
     highestPrice |-> currentPrice,
     currentStopPrice |-> StopPrice(options, currentPrice),
     status |-> "ACTIVE"]

\* A variant of Raise in which the order follows every price, up or down.
RaiseFollowsPrice(ord, currentPrice) ==
    [ord EXCEPT !.highestPrice = currentPrice,
                !.currentStopPrice = StopPrice(ord, currentPrice)]

\* The order after updateTrailingStops has compared currentPrice with its
\* highest price.
Raise(ord, currentPrice) ==
    IF currentPrice > ord.highestPrice
    THEN [ord EXCEPT !.highestPrice = currentPrice,
                     !.currentStopPrice = StopPrice(ord, currentPrice)]
    ELSE ord

\* activeOrders of updateTrailingStops
ActiveStops(orders) ==
    InOrder({id \in DOMAIN orders : orders[id].status = "ACTIVE"})

\* The run t goes to the next order of its activeOrders, or ends.
NextStop(t) ==
    IF stopTicks[t].todo = <<>> THEN NoStopTick
    ELSE [pc |-> "fetching", todo |-> Tail(stopTicks[t].todo),
          order |-> Head(stopTicks[t].todo)]

Fetching == {t \in StopTicks : stopTicks[t].pc = "fetching"}

OtherGroupsUnchangedByStops ==
    /\ UNCHANGED <<icebergOrders, processCalls, placedOrders>>
    /\ UNCHANGED timeVars
    /\ UNCHANGED btVars
    /\ UNCHANGED riskVars
    /\ UNCHANGED pureVars
    /\ UNCHANGED tradeVars

\* createTrailingStopOrder from the answer of getLTP on.
CreateTrailingStopOrder(options, currentPrice) ==
    /\ Cardinality(DOMAIN trailingStopOrders) < MaxStopOrders
    /\ trailingStopOrders' =
          (orderIdCounter :> NewTrailingStopOrder(options, currentPrice))
          @@ trailingStopOrders
    /\ seenPrices' = (orderIdCounter :> <<currentPrice>>) @@ seenPrices
    /\ orderIdCounter' = orderIdCounter + 1
    /\ UNCHANGED <<stopTicks, sellOrders>>
    /\ OtherGroupsUnchangedByStops

\* The timer fires and run t starts: it takes its list of ACTIVE orders and
\* asks for the price of the first.
UpdateTrailingStops(t) ==
    /\ stopTicks[t].pc = "idle"
    /\ ActiveStops(trailingStopOrders) # <<>>
    /\ \A id \in DOMAIN trailingStopOrders :
          Len(seenPrices[id]) + Cardinality(Fetching) < MaxSeen
    /\ stopTicks' = [stopTicks EXCEPT ![t] =
          [pc |-> "fetching", todo |-> Tail(ActiveStops(trailingStopOrders)),
           order |-> Head(ActiveStops(trailingStopOrders))]]
    /\ UNCHANGED <<trailingStopOrders, sellOrders, seenPrices, orderIdCounter>>
    /\ OtherGroupsUnchangedByStops

\* searchInstruments and getLTP have answered: the order is raised, and where
\* the price is at or under its stop triggerTrailingStop marks it TRIGGERED
\* and sends the SELL order.
PriceArrives(t, currentPrice) ==
    /\ stopTicks[t].pc = "fetching"
    /\ LET id == stopTicks[t].order
           raised == Raise(trailingStopOrders[id], currentPrice)
           triggered == currentPrice <= raised.currentStopPrice
       IN  /\ trailingStopOrders' = [trailingStopOrders EXCEPT ![id] =
                 IF triggered THEN [raised EXCEPT !.status = "TRIGGERED"]
                 ELSE raised]
           /\ sellOrders' = IF triggered
                            THEN Append(sellOrders,
                                   [order |-> id,
                                    status |-> trailingStopOrders[id].status])
                            ELSE sellOrders
           /\ seenPrices' = IF trailingStopOrders[id].status = "ACTIVE"
                            THEN [seenPrices EXCEPT ![id] = Append(@, currentPrice)]
                            ELSE seenPrices
           /\ stopTicks' = [stopTicks EXCEPT ![t] =
                 IF triggered THEN [@ EXCEPT !.pc = "selling"] ELSE NextStop(t)]
    /\ UNCHANGED orderIdCounter
    /\ OtherGroupsUnchangedByStops

\* searchInstruments or getLTP answers without success, or throws.
PriceFails(t) ==
    /\ stopTicks[t].pc = "fetching"
    /\ stopTicks' = [stopTicks EXCEPT ![t] = NextStop(t)]
    /\ UNCHANGED <<trailingStopOrders, sellOrders, seenPrices, orderIdCounter>>
    /\ OtherGroupsUnchangedByStops

\* placeOrder of triggerTrailingStop has returned or thrown.
SellReturns(t) ==
    /\ stopTicks[t].pc = "selling"
    /\ stopTicks' = [stopTicks EXCEPT ![t] = NextStop(t)]
    /\ UNCHANGED <<trailingStopOrders, sellOrders, seenPrices, orderIdCounter>>
    /\ OtherGroupsUnchangedByStops

CancelTrailingStop(id) ==
    /\ id \in DOMAIN trailingStopOrders
    /\ trailingStopOrders[id].status = "ACTIVE"
    /\ trailingStopOrders' = [trailingStopOrders EXCEPT ![id].status = "CANCELLED"]
    /\ UNCHANGED <<stopTicks, sellOrders, seenPrices, orderIdCounter>>
    /\ OtherGroupsUnchangedByStops

-----------------------------------------------------------------------------

(* Specifications                                                           *)

NoProbe == [op |-> "none", out |-> Zero]

\* Two strategies have been created: 1 by the session user, 2 by another user.
Init ==
    /\ strategies = (1 :> [userId |-> SessionUser]) @@ (2 :> [userId |-> 2])
    /\ backtests = <<>>
    /\ currentId = 3
    /\ pc = [p \in Requests |-> "idle"]
    /\ req = [p \in Requests |-> NoRequest]
    /\ strat = [p \in Requests |-> NoStrategy]
    /\ acc = [p \in Requests |-> InitialAcc(NoRequest)]
    /\ result = [p \in Requests |-> NoResult]
    /\ response = [p \in Requests |-> NoResponse]
    /\ simulated = [p \in Requests |-> FALSE]
    /\ created = [p \in Requests |-> {}]
    /\ draws = [p \in Requests |-> <<>>]
    /\ portfolioHistory = <<>>
    /\ storageKind \in {"mem", "db"}
    /\ now = 0
    /\ rpc = "idle"
    /\ rsnap = <<>>
    /\ rpart = NoPart
    /\ rlog = {}
    /\ fetched = NoFetch
    /\ series = <<>>
    /\ probe = NoProbe
    /\ tradesTable = <<>>
    /\ strategyStats = [id \in {1, 2} |-> [totalPnL |-> 0, totalTrades |-> 0]]
    /\ tradeResponse = NoResponse
    /\ lossCheck = NoLossCheck
    /\ execCalls = [c \in ExecCalls |-> NoExec]
    /\ icebergOrders = <<>>
    /\ orderIdCounter = 1
    /\ processCalls = [c \in Callers |-> NoCall]
    /\ placedOrders = <<>>
    /\ orderClock = 0
    /\ timeBasedOrders = <<>>
    /\ timeTicks = [t \in TimeTicks |-> NoTimeTick]
    /\ executions = <<>>
    /\ trailingStopOrders = <<>>
    /\ stopTicks = [t \in StopTicks |-> NoStopTick]
    /\ sellOrders = <<>>
    /\ seenPrices = <<>>

\* One POST /api/backtests, with the owner deleting strategies meanwhile
Next ==
    \/ \E body \in Bodies : PostBacktests(1, body)
    \/ RouteCheck(1)
    \/ RunBacktestCheck(1)
    \/ LoopTrade(1)
    \/ LoopNoTrade(1)
    \/ LoopExit(1)
    \/ CreateBacktest(1)
    \/ \E id \in {1} : DeleteStrategy(id)

Spec == Init /\ [][Next]_vars

\* The request is between two of its steps.
Running == pc[1] \in {"routeCheck", "svcCheck", "loop", "persist"}

\* The steps of the request
RequestStep ==
    \/ RouteCheck(1)
    \/ RunBacktestCheck(1)
    \/ LoopTrade(1)
    \/ LoopNoTrade(1)
    \/ LoopExit(1)
    \/ CreateBacktest(1)

\* The same request under the scheduling of one Node.js event loop: a
\* synchronous stretch runs when it can and an awaited storage call resolves.
\* This is WF_vars(RequestStep) written out, RequestStep being enabled exactly
\* when the request is Running (each position has a step whose guard holds).
\* Nothing is assumed of the random draws.
Progress == []<>(~Running) \/ []<><<RequestStep>>_vars

LiveSpec == Init /\ [][Next]_vars /\ Progress

\* Two concurrent POST /api/backtests
ConcNext ==
    \E p \in Requests :
        \/ \E body \in ConcBodies : PostBacktests(p, body)
        \/ RouteCheck(p)
        \/ RunBacktestCheck(p)
        \/ LoopTrade(p)
        \/ LoopNoTrade(p)
        \/ LoopExit(p)
        \/ CreateBacktest(p)

ConcSpec == Init /\ [][ConcNext]_vars

\* getPortfolioRiskMetrics calls, with history rows inserted meanwhile
RiskNext ==
    \/ Tick
    \/ \E r \in HistoryInserts : CreatePortfolioHistory(r[1], r[2])
    \/ RiskFetch
    \/ RiskCompute
    \/ RiskFinish

RiskSpec == Init /\ [][RiskNext]_vars

\* Direct getPortfolioHistory and calculateDrawdown calls
HistNext ==
    \/ Tick
    \/ \E r \in HistoryInserts : CreatePortfolioHistory(r[1], r[2])
    \/ \E u \in HistoryUsers, l \in Limits : FetchHistory(u, l)
    \/ \E u \in HistoryUsers, d \in Limits : CalculateDrawdown(u, d)

HistSpec == Init /\ [][HistNext]_vars

\* Trades submitted over the days, and the daily-loss route
TradeNext ==
    \/ Tick
    \/ \E u \in TradeUsers, body \in TradeBodies : PostTrades(u, body)
    \/ \E u \in TradeUsers : GetDailyLoss(u)

TradeSpec == Init /\ [][TradeNext]_vars

\* One iceberg order, the 30-second monitor and the broker's answers
IcebergNext ==
    \/ \E q \in IcebergQuantities : CreateIcebergOrder(q[1], q[2])
    \/ \E c \in MonitorCalls : MonitorIcebergOrders(c)
    \/ \E c \in Callers : PlaceOrderSucceeds(c)
    \/ \E c \in Callers : PlaceOrderFails(c)
    \/ \E id \in DOMAIN icebergOrders : CancelIcebergOrder(id)

IcebergSpec == Init /\ [][IcebergNext]_vars

\* The bodies of the storage specification: one-day backtests of strategy 1
StoreBodies == {b \in ConcBodies : b.endDate = b.startDate}

\* The trades of the storage specification
StoreTrades == {body \in TradeBodies : body.strategyId = 1 /\ body.pnl = <<1000>>}

\* Backtests one after the other or together, with the strategy deleted and
\* trades executed (which update the strategy) meanwhile
StoreNext ==
    \/ \E p \in Requests :
          \/ \E body \in StoreBodies : PostBacktests(p, body)
          \/ RouteCheck(p)
          \/ RunBacktestCheck(p)
          \/ LoopTrade(p)
          \/ LoopNoTrade(p)
          \/ LoopExit(p)
          \/ CreateBacktest(p)
    \/ \E id \in {1} : DeleteStrategy(id)
    \/ \E body \in StoreTrades : PostTrades(SessionUser, body)

StoreSpec == Init /\ [][StoreNext]_vars

\* executeTrade calls for one strategy, interleaved at their awaits
ExecNext ==
    \E c \in ExecCalls :
        \/ \E body \in ExecBodies : ExecCreateTrade(c, body)
        \/ ExecGetStrategy(c)
        \/ ExecUpdateStrategy(c)

ExecSpec == Init /\ [][ExecNext]_vars

\* Time-based orders under the minute timer, with cancellations.
TimeNext ==
    \/ \E options \in TimeOrderRequests : CreateTimeBasedOrder(options)
    \/ \E t \in TimeTicks : ProcessTimeBasedOrders(t)
    \/ \E t \in TimeTicks : ExecuteSucceeds(t)
    \/ \E t \in TimeTicks : AlertDone(t)
    \/ \E t \in TimeTicks : ExecuteFails(t)
    \/ \E id \in DOMAIN timeBasedOrders : CancelTimeBasedOrder(id)

TimeSpec == Init /\ [][TimeNext]_vars

\* Trailing stops under the ten-second timer, with cancellations.
StopNext ==
    \/ \E options \in StopRequests : CreateTrailingStopOrder(options, 100)
    \/ \E t \in StopTicks : UpdateTrailingStops(t)
    \/ \E t \in StopTicks, currentPrice \in Prices : PriceArrives(t, currentPrice)
    \/ \E t \in StopTicks : PriceFails(t)
    \/ \E t \in StopTicks : SellReturns(t)
    \/ \E id \in DOMAIN trailingStopOrders : CancelTrailingStop(id)

StopSpec == Init /\ [][StopNext]_vars

----------------------------------------------------------------------------
(* Claims                                                                   *)

Last(seq) == seq[Len(seq)]

\* The calendar day a date falls on
CalendarDay(t) == t \div TicksPerDay

\* The time of day of a date
TimeOfDay(t) == t % TicksPerDay

\* C1 (as claimed): every persisted backtest has finalValue equal to the value
\* of its last DailyValue when dailyValues is non-empty, whatever that value
\* is (0 included), and equal to initialCapital when dailyValues is empty.
C1_FinalValueIsLastDailyValue ==
    \A id \in DOMAIN backtests :
        LET b == backtests[id]
        IN  IF b.results.dailyValues # <<>>
            THEN b.finalValue = Last(b.results.dailyValues).value
            ELSE b.finalValue = b.initialCapital

\* C2 (as claimed): every persisted backtest with a non-empty DailyValue
\* sequence has 0 <= maxDrawdown <= 100.
C2_MaxDrawdownWithinZeroAndHundred ==
    \A id \in DOMAIN backtests :
        LET b == backtests[id]
        IN  b.results.dailyValues # <<>>
            => Leq(Zero, b.maxDrawdown) /\ Leq(b.maxDrawdown, R(100))

\* C3 (as claimed): whenever the end date is on or after the start date, the
\* DailyValue sequence has exactly one entry per calendar day from the start's
\* day to the end's day inclusive.
C3_OneEntryPerCalendarDay ==
    \A id \in DOMAIN backtests :
        LET b == backtests[id]
        IN  b.endDate >= b.startDate
            => Len(b.results.dailyValues)
                   = CalendarDay(b.endDate) - CalendarDay(b.startDate) + 1

\* C3 (amended): whenever the end is on or after the start and its time of
\* day is not earlier than the start's (date-only strings in particular), the
\* DailyValue sequence has exactly one entry per calendar day from start to end
\* inclusive, entry k dated k-1 days after the start, so in increasing order
\* and one day apart; start = end gives exactly one entry; the length is fixed
\* by the request alone.
C3_OneEntryPerDayAligned ==
    \A id \in DOMAIN backtests :
        LET b == backtests[id]
            dv == b.results.dailyValues
        IN  (b.endDate >= b.startDate /\ TimeOfDay(b.endDate) >= TimeOfDay(b.startDate))
            => /\ Len(dv) = CalendarDay(b.endDate) - CalendarDay(b.startDate) + 1
               /\ \A k \in 1..Len(dv) :
                     /\ dv[k].date = b.startDate + (k - 1) * TicksPerDay
                     /\ CalendarDay(dv[k].date) = CalendarDay(b.startDate) + k - 1
                     /\ dv[k].date <= b.endDate
               /\ (b.startDate = b.endDate => Len(dv) = 1)

\* C3 witness: a persisted three-day backtest with a trade in it.
C3_Witness ==
    \E id \in DOMAIN backtests :
        /\ backtests[id].startDate = 0
        /\ backtests[id].endDate = 2 * TicksPerDay
        /\ Len(backtests[id].results.dailyValues) = 3
        /\ Len(backtests[id].results.trades) >= 1

\* A request that violates a precondition of the backtest whichever way the
\* one-day range start = end is read: end date before start date, or initial
\* capital not positive.
ViolatesPrecondition(body) ==
    body.endDate < body.startDate \/ body.initialCapital <= 0

\* C4 (as claimed): a request that violates a precondition (end date before
\* start date, or initial capital not positive) is answered with a client
\* error, simulateBacktest never runs for it and nothing is persisted.
C4_PreconditionViolationRejected ==
    (pc[1] # "idle" /\ ViolatesPrecondition(req[1]))
        => /\ ~simulated[1]
           /\ created[1] = {}
           /\ (pc[1] = "done" => response[1].status \in 400..499)

\* The timestamps of a sequence of rows
Timestamps(rows) == [i \in DOMAIN rows |-> rows[i].timestamp]

\* C5 (as claimed): getPortfolioHistory(userId, limit) returns rows of the
\* user, min(limit, count) of them, in ascending timestamp order, and their
\* timestamps are the greatest ones among the user's rows.
C5_MostRecentChronological ==
    fetched.op = "history"
        => LET mine == SortAsc(FilterUser(fetched.store, fetched.userId))
               n == IF fetched.limit < Len(mine) THEN fetched.limit ELSE Len(mine)
           IN  /\ Len(fetched.rows) = n
               /\ \A i \in 1..Len(fetched.rows) : fetched.rows[i].userId = fetched.userId
               /\ Timestamps(fetched.rows)
                     = Timestamps(SubSeq(mine, Len(mine) - n + 1, Len(mine)))

\* C6 (as claimed): on a history of length 0 or 1 getPortfolioRiskMetrics
\* returns 0 for maxDrawdown, currentDrawdown, sharpeRatio, volatility and
\* varDaily.
C6_DegenerateHistoryGivesZeros ==
    \A e \in rlog :
        (Len(e.h1) <= 1 /\ e.h2 = e.h1)
            => /\ e.out.maxDrawdown = Zero
               /\ e.out.currentDrawdown = Zero
               /\ e.out.sharpeRatio = SurdZero
               /\ e.out.volatility = SurdZero
               /\ e.out.varDaily = Zero

\* Two completed calls that saw the identical stored history throughout
SameHistory(a, b) == a.h1 = b.h1 /\ a.h2 = b.h2 /\ a.h1 = a.h2

\* A history whose values are all positive
PositiveValues(hist) == \A i \in 1..Len(hist) : hist[i].totalValue > 0

Timeless(out) ==
    [totalValue |-> out.totalValue, maxDrawdown |-> out.maxDrawdown,
     currentDrawdown |-> out.currentDrawdown, sharpeRatio |-> out.sharpeRatio,
     volatility |-> out.volatility, varDaily |-> out.varDaily]

C8_OneSnapshotPerResult ==
    \A e \in rlog :
        (e.h1 # <<>> /\ PositiveValues(e.h1) /\ PositiveValues(e.h2))
            => /\ e.out.totalValue = Last(e.h1).totalValue
               /\ e.out.volatility = CalculateVolatility(CalculateDailyReturns(e.h1))
               /\ e.out.maxDrawdown = DrawdownOf(e.h1).maxDrawdown
               /\ e.out.currentDrawdown = DrawdownOf(e.h1).currentDrawdown

NotFound(resp) == resp.message = "Strategy not found"

\* C9: a request whose strategy is missing or foreign at the route, or missing
\* at runBacktest's own lookup, is answered 'Strategy not found', never reaches
\* simulateBacktest and persists nothing; simulateBacktest only ever runs with
\* a resolved strategy of the session user; a finished request has persisted
\* exactly one backtest, holding the complete result of its own simulation,
\* when it was answered 200 and nothing otherwise.
C9_NotFoundPersistsNothing ==
    /\ simulated[1] => strat[1].found /\ strat[1].userId = SessionUser
    /\ pc[1] \in {"loop", "persist"} => simulated[1]
    /\ pc[1] # "done" => created[1] = {}
    /\ DOMAIN backtests = created[1]
    /\ pc[1] = "done" =>
          /\ NotFound(response[1])
                <=> (BacktestRequestSchemaOk(req[1])
                       /\ (~strat[1].found \/ strat[1].userId # SessionUser))
          /\ NotFound(response[1]) => ~simulated[1] /\ created[1] = {}
          /\ NotFound(response[1]) => response[1].status \in {400, 404}
          /\ response[1].status = 200
                <=> (simulated[1] /\ Cardinality(created[1]) = 1)
          /\ response[1].status # 200 => created[1] = {}
          /\ \A id \in created[1] :
                /\ backtests[id].results = result[1]
                /\ backtests[id].strategyId = req[1].strategyId
                /\ backtests[id].userId = SessionUser
                /\ Len(result[1].dailyValues) = acc[1].i
                /\ ~(acc[1].i <= DaysDiff(req[1]))

\* C9 witness: the strategy was deleted after the route's ownership check, so
\* runBacktest's own lookup failed: 400 'Strategy not found', nothing persisted.
C9_Witness ==
    /\ pc[1] = "done"
    /\ response[1] = [status |-> 400, message |-> "Strategy not found"]
    /\ ~simulated[1]
    /\ backtests = <<>>
    /\ 1 \notin DOMAIN strategies

\* simulateBacktest run alone on the draws ds
RECURSIVE SoloAcc(_, _)
SoloAcc(request, ds) ==
    IF ds = <<>> THEN InitialAcc(request)
    ELSE LoopBody(request, SoloAcc(request, SubSeq(ds, 1, Len(ds) - 1)), ds[Len(ds)])

\* C10: under every interleaving of two runs, what each run returns and
\* persists (trades, dailyValues, maxDrawdown, Sharpe ratio, profit factor) is
\* what simulateBacktest computes alone from that run's request and draws, and
\* the runs are stored as distinct records under distinct ids.
C10_RunsIndependent ==
    /\ \A p \in Requests :
          /\ pc[p] = "loop" => acc[p] = SoloAcc(req[p], draws[p])
          /\ pc[p] \in {"persist", "done"} /\ simulated[p]
                => result[p] = SimulationResult(SoloAcc(req[p], draws[p]))
          /\ pc[p] = "done" /\ response[p].status = 200
                => /\ Cardinality(created[p]) = 1
                   /\ \A id \in created[p] :
                         /\ backtests[id].id = id
                         /\ backtests[id].results
                               = SimulationResult(SoloAcc(req[p], draws[p]))
                         /\ backtests[id].initialCapital = req[p].initialCapital
    /\ \A p, q \in Requests : p # q => created[p] \cap created[q] = {}
    /\ DOMAIN backtests = UNION {created[p] : p \in Requests}

\* C10 witness: both runs persisted, with different trades.
C10_Witness ==
    /\ \A p \in Requests : pc[p] = "done" /\ response[p].status = 200
    /\ Cardinality(DOMAIN backtests) = 2
    /\ \A p \in Requests : Len(result[p].trades) >= 1
    /\ result[1].trades # result[2].trades

\* A value series as the history rows calculateDrawdown's loop reads
AsHistory(values) ==
    IF values = <<>> THEN <<>>
    ELSE [i \in 1..Len(values) |-> [totalValue |-> values[i]]]

\* The values of a DailyValue sequence
DailyValuesOf(dailyValues) ==
    IF dailyValues = <<>> THEN <<>>
    ELSE [i \in 1..Len(dailyValues) |-> dailyValues[i].value]

\* Max drawdown post-hoc from a value series alone: running peak from its
\* first value, maximum of (peak - value) / peak * 100
PostHocMaxDrawdown(values) == DrawdownOf(AsHistory(values)).maxDrawdown

----------------------------------------------------------------------------
(* The metric functions applied directly to a number series                 *)

\* Series of up to MaxSeries numbers are tried.
MaxSeries == 4

\* The numbers a series is made of: portfolio values, trade P&Ls, or returns
\* in percent.
SampleValues == {-50, -30, 0, 1, 5, 90, 100, 110, 120, 200}

\* The returns (in percent) the Sharpe ratios are tried on
SharpePercents == {0, 1, 5}

\* A series may go on up to LongSeries numbers as a run of one number.
LongSeries == 20

\* The series as trades, of which the metrics read pnl only
AsTrades(pnls) ==
    IF pnls = <<>> THEN <<>> ELSE [i \in 1..Len(pnls) |-> [pnl |-> pnls[i]]]

\* The series as returns: x stands for the return x / 100
AsReturns(percents) ==
    IF percents = <<>> THEN <<>>
    ELSE [i \in 1..Len(percents) |-> Norm(percents[i], 100)]

\* The caller builds its input.
Extend(v) ==
    /\ Len(series) < MaxSeries
    /\ series' = Append(series, v)
    /\ probe' = NoProbe
    /\ UNCHANGED btVars
    /\ UNCHANGED riskVars
    /\ UNCHANGED tradeVars
    /\ UNCHANGED orderVars

\* The caller builds a longer input: one number, then a run of another.
ExtendRun ==
    /\ Len(series) >= MaxSeries
    /\ Len(series) < LongSeries
    /\ \A i \in 2..Len(series) : series[i] = series[2]
    /\ series' = Append(series, series[2])
    /\ probe' = NoProbe
    /\ UNCHANGED btVars
    /\ UNCHANGED riskVars
    /\ UNCHANGED tradeVars
    /\ UNCHANGED orderVars

\* calculateDrawdown's computation (lines 91-112) on the series as history values
ApplyDrawdown ==
    /\ probe' = [op |-> "drawdown", out |-> DrawdownOf(AsHistory(series))]
    /\ UNCHANGED series
    /\ UNCHANGED btVars
    /\ UNCHANGED riskVars
    /\ UNCHANGED tradeVars
    /\ UNCHANGED orderVars

\* simulateBacktest's profit factor (lines 841-843) on the series as trade P&Ls
ApplyProfitFactor ==
    /\ probe' = [op |-> "profitFactor", out |-> ProfitFactor(AsTrades(series))]
    /\ UNCHANGED series
    /\ UNCHANGED btVars
    /\ UNCHANGED riskVars
    /\ UNCHANGED tradeVars
    /\ UNCHANGED orderVars

\* Both Sharpe ratios on the series as returns: simulateBacktest 834-838 and
\* calculateSharpeRatio
ApplySharpe ==
    /\ Len(series) <= MaxSeries
    /\ \A i \in 1..Len(series) : series[i] \in SharpePercents
    /\ probe' = [op |-> "sharpe",
                 out |-> [backtest |-> BacktestSharpe(AsReturns(series)),
                          live |-> CalculateSharpeRatio(AsReturns(series))]]
    /\ UNCHANGED series
    /\ UNCHANGED btVars
    /\ UNCHANGED riskVars
    /\ UNCHANGED tradeVars
    /\ UNCHANGED orderVars

\* calculateVaR on the series as returns
ApplyVaR ==
    /\ probe' = [op |-> "var", out |-> CalculateVaR(AsReturns(series)), arg |-> series]
    /\ series' = ListAfterVaR(series)
    /\ UNCHANGED btVars
    /\ UNCHANGED riskVars
    /\ UNCHANGED tradeVars
    /\ UNCHANGED orderVars

PureNext ==
    \/ \E v \in SampleValues : Extend(v)
    \/ ExtendRun
    \/ ApplyDrawdown
    \/ ApplyProfitFactor
    \/ ApplySharpe
    \/ ApplyVaR

PureSpec == Init /\ [][PureNext]_vars

NonDecreasing(s) == \A i \in 1..(Len(s) - 1) : s[i] <= s[i + 1]

NonNegative(s) == \A i \in 1..Len(s) : s[i] >= 0

\* C12 (as claimed): calculateDrawdown's max drawdown is 0 for the empty
\* series and for every monotonically non-decreasing series of non-negative
\* values, and 25 for the series 100, 120, 90, 110.
C12_MonotoneSeriesHaveNoDrawdown ==
    probe.op = "drawdown"
        => /\ (NonDecreasing(series) /\ NonNegative(series))
                 => probe.out.maxDrawdown = Zero
           /\ series = <<100, 120, 90, 110>> => probe.out.maxDrawdown = R(25)

\* The sum of the numbers of s at the indexes in idx
RECURSIVE SumAt(_, _)
SumAt(s, idx) ==
    IF idx = {} THEN 0
    ELSE LET i == CHOOSE j \in idx : TRUE
         IN  s[i] + SumAt(s, idx \ {i})

\* Gross profit: the sum of the positive P&Ls
GrossProfit(pnls) == SumAt(pnls, {i \in 1..Len(pnls) : pnls[i] > 0})

\* Gross loss: the magnitude of the sum of the negative P&Ls
GrossLoss(pnls) == -SumAt(pnls, {i \in 1..Len(pnls) : pnls[i] < 0})

\* C13: for every trade list the profit factor is not negative; it is
\* grossProfit / grossLoss when grossLoss > 0 (3.75 for the P&Ls 100, -50,
\* 200, -30), 999 when grossLoss = 0 and grossProfit > 0, and 0 when both are
\* 0, the empty trade list included.
C13_ProfitFactorCases ==
    probe.op = "profitFactor"
        => /\ Leq(Zero, probe.out)
           /\ GrossLoss(series) > 0
                 => probe.out = Norm(GrossProfit(series), GrossLoss(series))
           /\ (GrossLoss(series) = 0 /\ GrossProfit(series) > 0) => probe.out = R(999)
           /\ (GrossLoss(series) = 0 /\ GrossProfit(series) = 0) => probe.out = Zero
           /\ series = <<>> => probe.out = Zero
           /\ series = <<100, -50, 200, -30>> => probe.out = Norm(375, 100)

\* C13 witness: the profit factor of the P&Ls 100, -50, 200, -30 was computed.
C13_Witness ==
    /\ probe.op = "profitFactor"
    /\ series = <<100, -50, 200, -30>>
    /\ probe.out = <<15, 4>>

\* A return series of zero variance: empty, or all returns equal
ZeroVariance(s) == \A i \in 1..Len(s) : s[i] = s[1]

\* C14 (as claimed): the Sharpe ratio is 0 whenever the return series has zero
\* variance (the empty series and constant series included), in the backtest
\* computation and in calculateSharpeRatio.
C14_ZeroVarianceGivesZeroSharpe ==
    (probe.op = "sharpe" /\ ZeroVariance(series))
        => /\ probe.out.backtest = SurdZero
           /\ probe.out.live = SurdZero

\* The numbers of s that could stand at (0-based) index k once s is sorted
\* ascending
AtSortedIndex(s, k) ==
    {s[i] : i \in {j \in 1..Len(s) :
        /\ Cardinality({h \in 1..Len(s) : s[h] < s[j]}) <= k
        /\ k < Cardinality({h \in 1..Len(s) : s[h] <= s[j]})}}

\* C15: calculateVaR (confidence 0.95) returns 0 for the empty return list;
\* for n > 0 returns it returns the absolute value of the element at index
\* floor(0.05 * n) of the returns sorted ascending; the caller's list is left
\* as it was; the result is never negative.
C15_VaRIsSortedQuantile ==
    probe.op = "var"
        => /\ series = probe.arg
           /\ Leq(Zero, probe.out)
           /\ series = <<>> => probe.out = Zero
           /\ series # <<>>
                 => \E x \in AtSortedIndex(series, Len(series) \div 20) :
                       probe.out = Norm(Abs(x), 100)

\* C15 witness: VaR of 20 returns, -50% once and -30% nineteen times, is 30%,
\* the second smallest.
C15_Witness ==
    /\ probe.op = "var"
    /\ Len(series) = 20
    /\ series[1] = -50
    /\ series[2] = -30
    /\ probe.out = <<3, 10>>

\* C16: every persisted backtest with initialCapital > 0 has
\* totalReturn = (finalValue - initialCapital) / initialCapital * 100, and its
\* totalReturn is non-negative exactly when finalValue >= initialCapital.
C16_TotalReturnFromFinalValue ==
    \A id \in DOMAIN backtests :
        LET b == backtests[id]
        IN  b.initialCapital > 0
            => /\ b.totalReturn
                    = Norm((b.finalValue - b.initialCapital) * 100, b.initialCapital)
               /\ Leq(Zero, b.totalReturn) <=> b.finalValue >= b.initialCapital

\* C16 witness: a backtest of capital 1000 that ended at 500 has total
\* return -50.
C16_Witness ==
    \E id \in DOMAIN backtests :
        /\ backtests[id].initialCapital = 1000
        /\ backtests[id].finalValue = 500
        /\ backtests[id].totalReturn = <<-50, 1>>

\* The trades whose P&L is not exactly 0
NotBreakEven(trade) == trade.pnl # 0

\* C17: in every persisted backtest winningTrades is the number of trades with
\* P&L > 0, losingTrades the number with P&L < 0, totalTrades the length of
\* the trade list, winningTrades + losingTrades <= totalTrades, and the profit
\* factor is the one of the trade list with its zero-P&L trades left out.
C17_WinLossBuckets ==
    \A id \in DOMAIN backtests :
        LET b == backtests[id]
            trades == b.results.trades
        IN  /\ b.winningTrades = Cardinality({i \in 1..Len(trades) : trades[i].pnl > 0})
            /\ b.losingTrades = Cardinality({i \in 1..Len(trades) : trades[i].pnl < 0})
            /\ b.totalTrades = Len(trades)
            /\ b.winningTrades + b.losingTrades <= b.totalTrades
            /\ b.profitFactor = ProfitFactor(SelectSeq(trades, NotBreakEven))
            /\ b.profitFactor = b.results.profitFactor

\* C17 witness: a backtest with a winning, a losing and a break-even trade
\* counts one winner and one loser among three trades.
C17_Witness ==
    \E id \in DOMAIN backtests :
        LET b == backtests[id]
        IN  /\ b.totalTrades = 3
            /\ b.winningTrades = 1
            /\ b.losingTrades = 1
            /\ \E i \in 1..3 : b.results.trades[i].pnl = 0

\* C18 (as claimed): every DailyValue of a persisted backtest whose
\* initialCapital is at least 1000 has a non-negative portfolio value.
C18_DailyValuesNonNegative ==
    \A id \in DOMAIN backtests :
        LET b == backtests[id]
        IN  b.initialCapital >= 1000
            => \A i \in 1..Len(b.results.dailyValues) :
                  b.results.dailyValues[i].value >= 0

\* The trades of userId executed on day d, in the order they were persisted
TradesOfDay(userId, d) ==
    SelectSeq(tradesTable, LAMBDA trade : trade.userId = userId /\ trade.executedAt = d)

\* The summed realized P&L of the first k of rows
RealizedPnl(rows, k) ==
    SumAt([i \in 1..Len(rows) |-> IF rows[i].pnl = NullPnl THEN 0 ELSE rows[i].pnl[1]], 1..k)

\* C19 (as claimed): no trade of a user is persisted on a day after the
\* user's summed realized P&L of that day went below -maxDailyLoss: for every
\* user and day, the trades persisted before any given trade of that day sum
\* to at least -maxDailyLoss.
C19_NoTradeAfterLossLimit ==
    \A u \in TradeUsers, d \in 0..now :
        LET rows == TradesOfDay(u, d)
        IN  \A k \in 1..Len(rows) : RealizedPnl(rows, k - 1) >= -MaxDailyLoss

\* The child orders placed for order id
ChildrenOf(id) == SelectSeq(placedOrders, LAMBDA child : child.order = id)

\* C20 (as claimed): in every reachable state each child order of an iceberg
\* order has a quantity of at most visibleQuantity, executedQuantity is the
\* sum of the placed child quantities and is at most totalQuantity,
\* remainingQuantity is at least 0, and status is COMPLETED exactly when
\* remainingQuantity is 0.
C20_IcebergWithinTotal ==
    \A id \in DOMAIN icebergOrders :
        LET order == icebergOrders[id]
            children == ChildrenOf(id)
        IN  /\ \A i \in 1..Len(children) : children[i].quantity <= order.visibleQuantity
            /\ order.executedQuantity
                  = SumAt([i \in 1..Len(children) |-> children[i].quantity],
                          1..Len(children))
            /\ order.executedQuantity <= order.totalQuantity
            /\ order.remainingQuantity >= 0
            /\ order.status = "COMPLETED" <=> order.remainingQuantity = 0

\* initialCapital plus the P&L of the trades dated on or before date
ValueOn(initialCapital, trades, date) ==
    initialCapital
      + SumAt([i \in 1..Len(trades) |-> trades[i].pnl],
              {i \in 1..Len(trades) : trades[i].date <= date})

\* The accounting identity on a daily-value sequence and a trade list
Accounted(initialCapital, trades, dailyValues) ==
    \A i \in 1..Len(dailyValues) :
        /\ dailyValues[i].value = ValueOn(initialCapital, trades, dailyValues[i].date)
        /\ (\A k \in 1..Len(trades) : trades[k].date # dailyValues[i].date)
              => dailyValues[i].value
                   = (IF i = 1 THEN initialCapital ELSE dailyValues[i - 1].value)

\* C23: after every iteration of the day loop, and in every persisted
\* backtest, the DailyValue of each day is initialCapital plus the P&L of all
\* trades dated on or before that day, and a day without a trade records the
\* value of the day before (initialCapital on the first day).
C23_DailyValueIsCapitalPlusPnl ==
    /\ simulated[1] /\ pc[1] \in {"loop", "persist"}
          => Accounted(req[1].initialCapital, acc[1].trades, acc[1].dailyValues)
    /\ \A id \in DOMAIN backtests :
          Accounted(backtests[id].initialCapital, backtests[id].results.trades,
                    backtests[id].results.dailyValues)

\* C23 witness: capital 1000, no trade on the first day, a trade of -250 on
\* the second, none on the third: daily values 1000, 750, 750.
C23_Witness ==
    \E id \in DOMAIN backtests :
        LET b == backtests[id]
        IN  /\ b.initialCapital = 1000
            /\ Len(b.results.dailyValues) = 3
            /\ Len(b.results.trades) = 1
            /\ b.results.trades[1].pnl = -250
            /\ b.results.dailyValues[1].value = 1000
            /\ b.results.dailyValues[2].value = 750
            /\ b.results.dailyValues[3].value = 750

\* The fixed universe of simulated symbols
Universe == {"AAPL", "GOOGL", "MSFT", "TSLA"}

\* The well-formedness of a simulated trade list against its daily values
WellFormedTrades(initialCapital, trades, dailyValues) ==
    /\ \A k \in 1..Len(trades) :
          /\ trades[k].symbol \in Universe
          /\ trades[k].side \in {"BUY", "SELL"}
          /\ trades[k].quantity \in 1..10
          /\ Less(Zero, trades[k].price)
          /\ trades[k].pnl >= -500
          /\ trades[k].pnl <= 500
          /\ \E i \in 1..Len(dailyValues) : dailyValues[i].date = trades[k].date
          /\ \A j \in 1..Len(trades) : j < k => trades[j].date < trades[k].date
    /\ Len(trades) <= Len(dailyValues)
    /\ \A i \in 1..Len(dailyValues) :
          LET before == IF i = 1 THEN initialCapital ELSE dailyValues[i - 1].value
          IN  /\ dailyValues[i].value - before <= 500
              /\ before - dailyValues[i].value <= 500

\* C24: every simulated trade has a symbol of the universe, side BUY or
\* SELL, an integer quantity in 1..10, a positive price and a P&L within
\* [-500, 500]; there is at most one trade per day, so the trades are in
\* date order, each on the date of a DailyValue, no more numerous than the
\* days, and consecutive daily values (the first against initialCapital)
\* differ by at most 500.
C24_TradesWellFormed ==
    /\ simulated[1] /\ pc[1] \in {"loop", "persist"}
          => WellFormedTrades(req[1].initialCapital, acc[1].trades, acc[1].dailyValues)
    /\ \A id \in DOMAIN backtests :
          WellFormedTrades(backtests[id].initialCapital, backtests[id].results.trades,
                           backtests[id].results.dailyValues)

\* C24 witness: a two-day run from 1000 with a trade on each day, a BUY of 8
\* losing 500 and then a SELL gaining 250, ends at 750.
C24_Witness ==
    /\ pc[1] = "done"
    /\ \E id \in DOMAIN backtests :
        LET b == backtests[id]
        IN  /\ b.initialCapital = 1000
            /\ Len(b.results.dailyValues) = 2
            /\ Len(b.results.trades) = 2
            /\ b.results.trades[1].pnl = -500
            /\ b.results.trades[1].quantity = 8
            /\ b.results.trades[2].side = "SELL"
            /\ b.finalValue = 750

\* The request of process 1 is valid and its strategy was resolved
ValidAndResolved == simulated[1] /\ req[1].endDate >= req[1].startDate

\* floor((end - start) / 24 h) + 1
WholeDays(request) == ((request.endDate - request.startDate) \div TicksPerDay) + 1

\* The loop of process 1 is over
LoopOver == pc[1] \in {"persist", "done"}

\* C25 (as claimed): for a valid request whose strategy resolved, the loop
\* is over after exactly as many iterations as the range has calendar days,
\* start and end included.
C25_IterationsAreCalendarDays ==
    (ValidAndResolved /\ LoopOver)
        => Len(draws[1]) = CalendarDay(req[1].endDate) - CalendarDay(req[1].startDate) + 1

\* The safety part of C25 (amended)
C25_Counts ==
    ValidAndResolved
        => /\ Len(draws[1]) <= WholeDays(req[1])
           /\ acc[1].i = Len(draws[1])
           /\ LoopOver => Len(draws[1]) = WholeDays(req[1])
           /\ pc[1] # "done" => created[1] = {}
           /\ pc[1] = "done" => Cardinality(created[1]) = 1 /\ response[1].status = 200

\* C25 (amended): for a valid request whose strategy resolved, whatever the
\* random draws, the loop ends after exactly floor((end - start) / 24 h) + 1
\* iterations, no step fails, and the request completes with exactly one
\* createBacktest call.
C25_RunsToCompletion ==
    /\ []C25_Counts
    /\ ValidAndResolved ~> (pc[1] = "done" /\ Cardinality(created[1]) = 1)

\* C25 witness: a request completed after three iterations and one
\* createBacktest call.
C25_Witness ==
    /\ ValidAndResolved
    /\ pc[1] = "done"
    /\ Len(draws[1]) = 3
    /\ Cardinality(created[1]) = 1
    /\ response[1].status = 200

\* MemStorage.getBacktest(id) on the backtests map m: the row, or <<>> for
\* undefined
GetBacktest(m, id) == IF id \in DOMAIN m THEN <<m[id]>> ELSE <<>>

\* C26: a persisted backtest is write-once: no step of any operation
\* (further backtests, strategy deletion, trades and the strategy updates
\* they make) changes or removes a record createBacktest has stored, and
\* getBacktest(id) keeps returning the same contents.
C26_BacktestsWriteOnce ==
    [][\A id \in DOMAIN backtests :
          /\ id \in DOMAIN backtests'
          /\ GetBacktest(backtests', id) = GetBacktest(backtests, id)]_vars

\* C26 witness: two backtests are stored, the strategy they ran on is gone
\* and trades were executed.
C26_Witness ==
    /\ Cardinality(DOMAIN backtests) = 2
    /\ 1 \notin DOMAIN strategies
    /\ Len(tradesTable) >= 1
    /\ \E id \in DOMAIN backtests : \E k \in 1..Len(tradesTable) : tradesTable[k].id > id

\* The rows of a window at its highest value
AtPeak(rows) ==
    {i \in 1..Len(rows) : \A j \in 1..Len(rows) : rows[j].totalValue <= rows[i].totalValue}

\* The rows of a window recorded last
MostRecent(rows) ==
    {i \in 1..Len(rows) : \A j \in 1..Len(rows) : rows[j].timestamp <= rows[i].timestamp}

\* A window whose records were taken at different times
DistinctTimes(rows) ==
    \A i, j \in 1..Len(rows) : i # j => rows[i].timestamp # rows[j].timestamp

\* C30 (as claimed): for every non-empty window of positive values (records
\* taken at different times), calculateDrawdown returns currentDrawdown <=
\* maxDrawdown, currentDrawdown is the drop from the highest value of the
\* window to its last, most recent record, and currentDrawdown is 0 exactly
\* when that record is at the peak.
C30_CurrentDrawdownFromPeakToLast ==
    (/\ fetched.op = "drawdown"
     /\ fetched.rows # <<>>
     /\ PositiveValues(fetched.rows)
     /\ DistinctTimes(fetched.rows))
        => LET rows == fetched.rows
               peak == rows[CHOOSE i \in AtPeak(rows) : TRUE].totalValue
               last == CHOOSE i \in MostRecent(rows) : TRUE
           IN  /\ Leq(fetched.out.currentDrawdown, fetched.out.maxDrawdown)
               /\ fetched.out.currentDrawdown
                     = Norm((peak - rows[last].totalValue) * 100, peak)
               /\ fetched.out.currentDrawdown = Zero <=> last \in AtPeak(rows)

\* The executed trades of strategy id that carry a P&L
WithPnl(id) ==
    SelectSeq(tradesTable, LAMBDA trade : trade.strategyId = id /\ trade.pnl # NullPnl)

\* C29 (as claimed): once no executeTrade call is in progress, the totalTrades
\* of the strategy is its previous value (0) plus the number of executed
\* trades with a non-null P&L, and its totalPnL the previous value (0) plus
\* the sum of those P&Ls.
C29_NoLostStrategyUpdate ==
    (\A c \in ExecCalls : execCalls[c].pc = "idle")
        => \A id \in DOMAIN strategies :
              LET rows == WithPnl(id)
              IN  /\ strategyStats[id].totalTrades = Len(rows)
                  /\ strategyStats[id].totalPnL
                        = SumAt([i \in 1..Len(rows) |-> rows[i].pnl[1]], 1..Len(rows))

\* The order clock distance between two executions.
Apart(e1, e2) == IF e1.at >= e2.at THEN e1.at - e2.at ELSE e2.at - e1.at

\* C21: any two executions of one INTERVAL order are at least its
\* intervalMinutes apart (so are, in particular, two consecutive ones).
C21_IntervalExecutionsApart ==
    \A i, j \in 1..Len(executions) :
        (/\ i < j
         /\ executions[i].order = executions[j].order
         /\ timeBasedOrders[executions[i].order].scheduleType = "INTERVAL")
        => Apart(executions[i], executions[j])
              >= timeBasedOrders[executions[i].order].intervalMinutes

\* No time-based order has executed more often than its maxExecutions.
CountWithinMax ==
    \A id \in DOMAIN timeBasedOrders :
        timeBasedOrders[id].executionCount <= timeBasedOrders[id].maxExecutions

Finished(id) == timeBasedOrders[id].status \in {"COMPLETED", "CANCELLED"}

\* This step sends a placeOrder for the time-based order id.
SendsOrder(id) ==
    \E t \in TimeTicks : /\ timeTicks'[t] # timeTicks[t]
                         /\ timeTicks'[t].pc = "placing"
                         /\ timeTicks'[t].order = id

\* A COMPLETED or CANCELLED order keeps its status and is not sent again.
FinishedStaysFinished ==
    \A id \in DOMAIN timeBasedOrders :
        Finished(id) => /\ timeBasedOrders'[id].status = timeBasedOrders[id].status
                        /\ ~SendsOrder(id)

\* C28: under overlapping processTimeBasedOrders runs and cancellations, the
\* executionCount of a time-based order never exceeds its maxExecutions, and a
\* COMPLETED or CANCELLED order is never executed again nor changes status.
C28_TimeOrderExecutionsBounded ==
    /\ []CountWithinMax
    /\ [][FinishedStaysFinished]_vars

RECURSIVE MaxOf(_)
MaxOf(s) ==
    IF Len(s) = 1 THEN s[1]
    ELSE LET rest == MaxOf(Tail(s)) IN IF s[1] >= rest THEN s[1] ELSE rest

\* The trail of an order at a highest price: its trailPercent of that price
\* where it has one, its trailAmount otherwise.
Trail(ord, highest) ==
    IF ord.trailPercent # 0 THEN (highest * ord.trailPercent) \div 100
    ELSE ord.trailAmount

\* The stop a ratchet holds after the first n prices of seen.
StopAfter(ord, seen, n) ==
    LET highest == MaxOf(SubSeq(seen, 1, n)) IN highest - Trail(ord, highest)

\* An ACTIVE trailing stop is where the ratchet over the prices seen puts it,
\* and no price seen after its creation was at or under the stop of its time.
RatchetState ==
    \A id \in DOMAIN trailingStopOrders :
        LET ord == trailingStopOrders[id]
            seen == seenPrices[id]
        IN  ord.status = "ACTIVE" =>
               /\ ord.highestPrice = MaxOf(seen)
               /\ ord.currentStopPrice = ord.highestPrice - Trail(ord, ord.highestPrice)
               /\ \A n \in 2..Len(seen) : seen[n] > StopAfter(ord, seen, n)

\* The stop of an order that stays ACTIVE does not go down, and an ACTIVE
\* order whose newly seen price is at or under its stop is TRIGGERED by the
\* step that sees it.
RatchetStep ==
    \A id \in DOMAIN trailingStopOrders :
        LET ord == trailingStopOrders[id]
            seen == seenPrices'[id]
        IN  ord.status = "ACTIVE" =>
               /\ trailingStopOrders'[id].status = "ACTIVE"
                     => trailingStopOrders'[id].currentStopPrice >= ord.currentStopPrice
               /\ (/\ Len(seen) > Len(seenPrices[id])
                   /\ seen[Len(seen)] <= StopAfter(ord, seen, Len(seen)))
                     => trailingStopOrders'[id].status = "TRIGGERED"

\* C22: while a trailing stop is ACTIVE its highestPrice is the maximum of
\* the prices seen since its creation, its currentStopPrice is the highest
\* price minus the trail and never decreases, and it is triggered by the
\* first tick whose price is at or under the stop.
C22_TrailingStopRatchet ==
    /\ []RatchetState
    /\ [][RatchetStep]_vars

\* C22 witness: a stop raised by a higher price and then triggered by the
\* next price, with its SELL order sent.
C22_Witness ==
    \E id \in DOMAIN trailingStopOrders :
        /\ trailingStopOrders[id].status = "TRIGGERED"
        /\ Len(seenPrices[id]) = 3
        /\ seenPrices[id][2] > seenPrices[id][1]
        /\ trailingStopOrders[id].highestPrice = seenPrices[id][2]
        /\ sellOrders = <<[order |-> id, status |-> "ACTIVE"]>>

\* The SELL orders sent for the trailing stop id.
SellsOf(id) == {n \in 1..Len(sellOrders) : sellOrders[n].order = id}

AtMostOneSell ==
    \A id \in DOMAIN trailingStopOrders : Cardinality(SellsOf(id)) <= 1

\* A TRIGGERED or CANCELLED trailing stop keeps its status and no SELL order
\* is sent for it.
LeftActiveIsFinal ==
    \A id \in DOMAIN trailingStopOrders :
        trailingStopOrders[id].status \in {"TRIGGERED", "CANCELLED"} =>
            /\ trailingStopOrders'[id].status = trailingStopOrders[id].status
            /\ Len(sellOrders') > Len(sellOrders)
                  => sellOrders'[Len(sellOrders')].order # id

\* C27: under overlapping updateTrailingStops runs and cancellations, at most
\* one SELL order is sent for a trailing stop, and a stop that is TRIGGERED or
\* CANCELLED causes no SELL order and keeps its status.
C27_TrailingStopSellsOnce ==
    /\ []AtMostOneSell
    /\ [][LeftActiveIsFinal]_vars

====
